---- MODULE Spec2Model ----
(***************************************************************************)
(* A model of the SOW comparison tool: the token-set similarity measure,   *)
(* the three section aligners (ComparisonView.sectionPairs,                *)
(* ReviewDashboard.sectionMatches, docxParser.matchSections) and the       *)
(* HTML-aware section segmenter (docxParser.extractSectionsFromHtml).      *)
(*                                                                         *)
(* A JavaScript string is a sequence of one-character strings, so that     *)
(* startsWith, includes, toLowerCase, split and the regular expressions    *)
(* are computed character by character.  null is the empty sequence: every *)
(* nullable field of the program (Section.number, Section.title, a         *)
(* template id in a match) is only ever tested for truthiness, and the     *)
(* parsers never produce an empty string in those fields.                  *)
(***************************************************************************)
EXTENDS Integers, Sequences, FiniteSets, TLC

VARIABLES
    templateSections,   \* templateSow.sections
    draftSections,      \* newSow.sections / draftSow.sections
    allIssues,          \* analysis.allIssues
    sectionPairs,       \* ComparisonView: the memoised sectionPairs
    cvUsedTemplateIds,  \* ComparisonView: usedTemplateIds of the latest run
    sectionMatches,     \* ReviewDashboard: the memoised sectionMatches
    rdUsedTemplateIds,  \* ReviewDashboard: usedTemplateIds of the latest run
    matches,            \* the Map returned by matchSections
    ran,                \* which of the three aligners have produced a result
    str1, str2,         \* the arguments of a calculateSimilarity call
    similarity,         \* its result (-1: not called yet)
    paragraphs,         \* extractSectionsFromHtml: the extracted paragraphs
    sections,           \* extractSectionsFromHtml: the returned Section[]
    segmented,          \* whether extractSectionsFromHtml has returned
    plainSections,      \* the plain-text extractSections: the returned Section[]
    plainSegmented,     \* whether the plain-text extractSections has returned
    richFile,           \* parseRichDocx: the DOCX container behind the buffer
    richOutcome,        \* parseRichDocx: "none", "returned" or "threw"
    richResult,         \* parseRichDocx: the RichParsedSOW it resolved with
    levelToken,         \* calculateSectionLevel: the numbering token passed
    levels,             \* its result in the HTML-aware and the plain-text parser
    formatTemplate,     \* compareSectionFormatting: the matched template section or null
    formatDraft,        \* the draft section
    formatDifferences,  \* the FormattingDifference list it returned
    formatRan,          \* whether it has returned
    aiConfigured,       \* analyzeSOWs: whether the Azure OpenAI environment is configured
    aiDraft,            \* newSow.sections
    aiPhase,            \* where analyzeSOWs stands: called, sections, global, returned
    aiMatches,          \* sectionMatches
    aiBatchStart,       \* i, the start of the batch in flight
    aiBatchResults,     \* the resolved promises of the batch in flight, by section index
    aiOutcomes,         \* what the service did with each section request
    aiSectionAnalyses,  \* sectionAnalyses
    aiAllIssues,        \* allIssues
    aiGlobalOutcome,    \* what the service did with the global request
    aiResult,           \* the AnalysisResult returned
    step,               \* Home: "upload" or "review"
    templateSow,        \* Home: the template document, or null
    draftSow,           \* Home: the draft document, or null
    analysis,           \* Home: the analysis, or null
    isUploading,        \* Home: "template", "draft" or "null"
    isAnalyzing,        \* Home: an analysis request is under way
    error,              \* Home: the error message shown, or null
    uploadRequests,     \* the upload requests in flight, counted by type
    analyzeRequest,     \* the body of the analyze request in flight, or null
    expandedSections,   \* ComparisonView: the ids in expandedSections
    expandAll           \* ComparisonView: expandAll

alignVars == <<templateSections, draftSections, allIssues, sectionPairs,
               cvUsedTemplateIds, sectionMatches, rdUsedTemplateIds, matches, ran>>
simVars == <<str1, str2, similarity>>
segVars == <<paragraphs, sections, segmented>>
plainVars == <<plainSections, plainSegmented>>
richVars == <<richFile, richOutcome, richResult>>
levelVars == <<levelToken, levels>>
formatVars == <<formatTemplate, formatDraft, formatDifferences, formatRan>>
aiVars == <<aiConfigured, aiDraft, aiPhase, aiMatches, aiBatchStart, aiBatchResults, aiOutcomes, aiSectionAnalyses, aiAllIssues, aiGlobalOutcome, aiResult>>
homeVars == <<step, templateSow, draftSow, analysis, isUploading, isAnalyzing, error, uploadRequests, analyzeRequest>>
viewVars == <<expandedSections, expandAll>>
serviceVars == <<plainVars, richVars, levelVars, formatVars, aiVars, homeVars, viewVars>>
exceptPlainVars == <<richVars, levelVars, formatVars, aiVars, homeVars, viewVars>>
exceptRichVars == <<plainVars, levelVars, formatVars, aiVars, homeVars, viewVars>>
exceptLevelVars == <<plainVars, richVars, formatVars, aiVars, homeVars, viewVars>>
exceptFormatVars == <<plainVars, richVars, levelVars, aiVars, homeVars, viewVars>>
exceptAiVars == <<plainVars, richVars, levelVars, formatVars, homeVars, viewVars>>
exceptHomeVars == <<plainVars, richVars, levelVars, formatVars, aiVars, viewVars>>
exceptViewVars == <<plainVars, richVars, levelVars, formatVars, aiVars, homeVars>>
vars == <<alignVars, simVars, segVars, serviceVars>>

NULL == <<>>

Min(a, b) == IF a < b THEN a ELSE b

\* the parsers and analyzers before any of them is called
PlainIdle == plainSections = <<>> /\ plainSegmented = FALSE
RichIdle == richFile = <<>> /\ richOutcome = "none" /\ richResult = <<>>
LevelIdle == levelToken = <<>> /\ levels = <<>>
FormatIdle == formatTemplate = <<>> /\ formatDraft = <<>> /\ formatDifferences = <<>> /\ formatRan = FALSE
AiIdle == aiPhase = "idle" /\ aiConfigured = FALSE /\ aiDraft = <<>> /\ aiMatches = <<>> /\ aiBatchStart = 0 /\ aiBatchResults = <<>> /\ aiOutcomes = <<>> /\ aiSectionAnalyses = <<>> /\ aiAllIssues = <<>> /\ aiGlobalOutcome = <<>> /\ aiResult = <<>>
HomeIdle == step = "unmounted" /\ templateSow = <<>> /\ draftSow = <<>> /\ analysis = <<>> /\ isUploading = "null" /\ isAnalyzing = FALSE /\ error = <<>> /\ uploadRequests = <<>> /\ analyzeRequest = <<>>
ViewIdle == expandedSections = {} /\ expandAll = FALSE
ServiceIdle == PlainIdle /\ RichIdle /\ LevelIdle /\ FormatIdle /\ AiIdle /\ HomeIdle /\ ViewIdle
ExceptRichIdle == PlainIdle /\ LevelIdle /\ FormatIdle /\ AiIdle /\ HomeIdle /\ ViewIdle
ExceptLevelIdle == PlainIdle /\ RichIdle /\ FormatIdle /\ AiIdle /\ HomeIdle /\ ViewIdle
ExceptFormatIdle == PlainIdle /\ RichIdle /\ LevelIdle /\ AiIdle /\ HomeIdle /\ ViewIdle
ExceptAiIdle == PlainIdle /\ RichIdle /\ LevelIdle /\ FormatIdle /\ HomeIdle /\ ViewIdle
ExceptHomeIdle == PlainIdle /\ RichIdle /\ LevelIdle /\ FormatIdle /\ AiIdle /\ ViewIdle
ExceptViewIdle == PlainIdle /\ RichIdle /\ LevelIdle /\ FormatIdle /\ AiIdle /\ HomeIdle

(***************************************************************************)
(* Characters and the string primitives of the JavaScript runtime.         *)
(***************************************************************************)
UpperCase == <<"A","B","C","D","E","F","G","H","I","J","K","L","M",
               "N","O","P","Q","R","S","T","U","V","W","X","Y","Z">>
LowerCase == <<"a","b","c","d","e","f","g","h","i","j","k","l","m",
               "n","o","p","q","r","s","t","u","v","w","x","y","z">>
Digits == {"0","1","2","3","4","5","6","7","8","9"}
\* the characters of the model's alphabet that the regular expression \s matches
Whitespace == {" ", "\t", "\n"}

\* String.prototype.toLowerCase / toUpperCase, one character at a time
IsUpperChar(c) == \E i \in 1..26 : UpperCase[i] = c
IsLowerChar(c) == \E i \in 1..26 : LowerCase[i] = c

UpperToLower == [c \in {UpperCase[i] : i \in 1..26} |->
                    LowerCase[CHOOSE i \in 1..26 : UpperCase[i] = c]]
LowerToUpper == [c \in {LowerCase[i] : i \in 1..26} |->
                    UpperCase[CHOOSE i \in 1..26 : LowerCase[i] = c]]

toLowerChar(c) == IF c \in DOMAIN UpperToLower THEN UpperToLower[c] ELSE c

toUpperChar(c) == IF c \in DOMAIN LowerToUpper THEN LowerToUpper[c] ELSE c

toLowerCase(s) == [i \in 1..Len(s) |-> toLowerChar(s[i])]

toUpperCase(s) == [i \in 1..Len(s) |-> toUpperChar(s[i])]

\* s.startsWith(p)
startsWith(s, p) == Len(p) <= Len(s) /\ SubSeq(s, 1, Len(p)) = p

\* s.includes(p)
includes(s, p) ==
    \E i \in 0..(Len(s) - Len(p)) : SubSeq(s, i + 1, i + Len(p)) = p

\* s.substring(0, n)
substring(s, n) == SubSeq(s, 1, Min(Len(s), n))

\* s.split(/\s+/).filter(Boolean): the maximal runs of non-whitespace, in order
wordStarts(s) ==
    {i \in 1..Len(s) : s[i] \notin Whitespace /\ (i = 1 \/ s[i - 1] \in Whitespace)}

wordEnd(s, i) ==
    CHOOSE j \in i..Len(s) :
        /\ \A k \in i..j : s[k] \notin Whitespace
        /\ (j = Len(s) \/ s[j + 1] \in Whitespace)

splitAt(s, starts) ==
    LET nth(k) == CHOOSE i \in starts : Cardinality({x \in starts : x < i}) = k - 1
    IN  [k \in 1..Cardinality(starts) |-> SubSeq(s, nth(k), wordEnd(s, nth(k)))]

splitWords(s) == splitAt(s, wordStarts(s))

Range(f) == {f[i] : i \in DOMAIN f}

(***************************************************************************)
(* diffUtils.calculateSimilarity.                                          *)
(*                                                                         *)
(* Math.round((matches / union) * 100) is evaluated in IEEE-754 doubles.   *)
(* 100*matches/union is an exact half only when matches/union = k/200 for  *)
(* an odd k; away from a half the double result is far closer to the exact *)
(* quotient than to the rounding boundary, so Math.round returns the       *)
(* half-up rounding of the exact quotient.  At an exact half the double    *)
(* product (k/200)*100 is k/2 for every odd k in 1..199 except 29, 57, 113 *)
(* and 115, where the correctly rounded quotient lies below k/200 and the  *)
(* product is the double just below k/2: Math.round then rounds down.      *)
(***************************************************************************)
DoubleProductBelowHalf(m, u) ==
    \E k \in {29, 57, 113, 115} : 200 * m = k * u

\* Math.round((m / u) * 100) for 0 <= m <= u, u > 0
MathRoundPercent(m, u) ==
    IF DoubleProductBelowHalf(m, u)
    THEN (200 * m) \div (2 * u)
    ELSE ((200 * m) \div u + 1) \div 2

\* lines 145-154, from the two word sets on
similarityOfSets(set1, set2) ==
    MathRoundPercent(Cardinality({w \in set1 : w \in set2}), Cardinality(set1 \cup set2))

\* lines 142-154, from the two word lists on
similarityOfWords(words1, words2) ==
    IF Len(words1) = 0 /\ Len(words2) = 0 THEN 100
    ELSE IF Len(words1) = 0 \/ Len(words2) = 0 THEN 0
    ELSE similarityOfSets(Range(words1), Range(words2))

calculateSimilarity(a, b) ==
    IF a = <<>> /\ b = <<>> THEN 100
    ELSE IF a = <<>> \/ b = <<>> THEN 0
    ELSE similarityOfWords(splitWords(toLowerCase(a)), splitWords(toLowerCase(b)))

(***************************************************************************)
(* docxParser.calculateSectionLevel (the HTML-aware parser).               *)
(***************************************************************************)
dotCount(number) == Cardinality({i \in 1..Len(number) : number[i] = "."})

RomanChars == {"I", "V", "X", "L", "C", "D", "M"}

\* /^[IVXLCDM]+$/i.test(number)
isRomanToken(number) ==
    Len(number) > 0 /\ \A i \in 1..Len(number) : toUpperChar(number[i]) \in RomanChars

calculateSectionLevel(number) ==
    IF number = NULL THEN 1
    ELSE IF dotCount(number) > 0 THEN dotCount(number) + 1
    ELSE IF isRomanToken(number) THEN 1
    ELSE 1

(***************************************************************************)
(* The documents at hand: the number, title and body of the sections found *)
(* in them.                                                                *)
(***************************************************************************)
BodyPrefixLength == 500

SectionContents ==
    { [number |-> <<"3">>, title |-> <<"P","a","y","m","e","n","t"," ","T","e","r","m","s">>,
       body |-> <<"n","e","t"," ","t","h","i","r","t","y"," ","d","a","y","s">>],
      [number |-> <<"3",".","1">>, title |-> <<"P","a","y","m","e","n","t"," ","T","e","r","m","s">>,
       body |-> <<"n","e","t"," ","s","i","x","t","y"," ","d","a","y","s">>],
      [number |-> NULL, title |-> <<"R","a","n","d","o","m"," ","N","o","t","e","s">>,
       body |-> <<"n","e","t"," ","t","h","i","r","t","y"," ","d","a","y","s">>],
      [number |-> <<"4">>, title |-> <<"T","e","r","m","s">>,
       body |-> <<"n","e","t"," ","t","h","i","r","t","y"," ","d","a","y","s">>] }

\* calculateSimilarity over the titles and body prefixes of those sections,
\* evaluated once; similarityOf looks a pair up there and computes any other
DocumentStrings ==
    {c.title : c \in SectionContents}
        \cup {substring(c.body, BodyPrefixLength) : c \in SectionContents}

\* (comparing the table with another function makes TLC tabulate it)
SimilarityTable ==
    LET computed == [pair \in DocumentStrings \X DocumentStrings |->
                        calculateSimilarity(pair[1], pair[2])]
        blank == [pair \in DocumentStrings \X DocumentStrings |-> -1]
    IN  IF computed = blank THEN blank ELSE computed

similarityOf(a, b) ==
    IF <<a, b>> \in DOMAIN SimilarityTable
    THEN SimilarityTable[<<a, b>>]
    ELSE calculateSimilarity(a, b)

(***************************************************************************)
(* Sections.  A Section is [id, number, title, level, body]; ids are the   *)
(* uuids the parser draws, distinct within and across documents.           *)
(***************************************************************************)
TemplateId(i) == <<"template", i>>
DraftId(j) == <<"draft", j>>

\* issuesBySectionId.get(id) || []
issuesBySectionId(issues, id) == SelectSeq(issues, LAMBDA issue : issue.sectionId = id)

(***************************************************************************)
(* ComparisonView.sectionPairs (the lenient aligner).  Scores are kept in  *)
(* tenths, so that similarity * 0.8 and similarity * 0.2 are the integers  *)
(* 8 * similarity and 2 * similarity.  Over the whole range of the four    *)
(* signals the double sum the code computes lies on the same side of the   *)
(* floor as the exact sum, and two sums that differ exactly differ the     *)
(* same way as doubles; two sums that are equal exactly can differ in the  *)
(* last bit as doubles, which this model does not represent.               *)
(***************************************************************************)
CvFloor == 30

\* a variant of cvNumberScore that adds the prefix bonus to the exact one
cvNumberScoreBoth(draft, template) ==
    IF draft.number # NULL /\ template.number # NULL
    THEN (IF draft.number = template.number THEN 100 ELSE 0)
         + (IF \/ startsWith(draft.number, template.number)
               \/ startsWith(template.number, draft.number)
            THEN 50 ELSE 0)
    ELSE 0

cvNumberScore(draft, template) ==
    IF draft.number # NULL /\ template.number # NULL
    THEN IF draft.number = template.number THEN 100
         ELSE IF \/ startsWith(draft.number, template.number)
                 \/ startsWith(template.number, draft.number)
              THEN 50
              ELSE 0
    ELSE 0

cvTitleTenths(draft, template) ==
    IF draft.title # NULL /\ template.title # NULL
    THEN 8 * similarityOf(draft.title, template.title)
    ELSE 0

\* a variant of cvContentTenths with the title's weight
cvContentTenthsHeavy(draft, template) ==
    8 * similarityOf(substring(draft.body, BodyPrefixLength),
                     substring(template.body, BodyPrefixLength))

cvContentTenths(draft, template) ==
    2 * similarityOf(substring(draft.body, BodyPrefixLength),
                     substring(template.body, BodyPrefixLength))

cvLevelScore(draft, template) == IF draft.level = template.level THEN 10 ELSE 0

\* the score of one (draft, template) pair, in tenths
cvScore(draft, template) ==
    10 * cvNumberScore(draft, template) + cvTitleTenths(draft, template)
        + cvContentTenths(draft, template) + 10 * cvLevelScore(draft, template)

\* the inner loop: bestMatch is an index into the template list, 0 for null
RECURSIVE cvBest(_, _, _, _, _, _)
RECURSIVE cvBetter(_, _, _, _, _, _, _)
cvBest(templates, draft, used, i, bestMatch, bestScore) ==
    IF i > Len(templates) THEN [bestMatch |-> bestMatch, bestScore |-> bestScore]
    ELSE IF templates[i].id \in used
         THEN cvBest(templates, draft, used, i + 1, bestMatch, bestScore)
         ELSE cvBetter(templates, draft, used, i, bestMatch, bestScore,
                       cvScore(draft, templates[i]))

\* if (score > bestScore) { bestScore = score; bestMatch = templateSection; }
cvBetter(templates, draft, used, i, bestMatch, bestScore, score) ==
    IF score > bestScore
    THEN cvBest(templates, draft, used, i + 1, i, score)
    ELSE cvBest(templates, draft, used, i + 1, bestMatch, bestScore)

\* a variant of cvAccepts without the floor
cvAcceptsAnyCandidate(bestMatch, bestScore) == bestMatch # 0

\* if (bestMatch && bestScore >= 30)
cvAccepts(bestMatch, bestScore) == bestMatch # 0 /\ bestScore >= 10 * CvFloor

\* a variant of cvClaim that never records the claim
cvClaimForgotten(used, templates, bestMatch, bestScore) == used

\* usedTemplateIds after the accept-or-reject step for one draft section
cvClaim(used, templates, bestMatch, bestScore) ==
    IF cvAccepts(bestMatch, bestScore) THEN used \cup {templates[bestMatch].id} ELSE used

\* the outer loop, from draft section j on
RECURSIVE cvLoop(_, _, _, _, _, _)
RECURSIVE cvPush(_, _, _, _, _, _, _)
cvLoop(templates, drafts, issues, j, used, pairs) ==
    IF j > Len(drafts) THEN [pairs |-> pairs, used |-> used]
    ELSE cvPush(templates, drafts, issues, j, used, pairs,
                cvBest(templates, drafts[j], used, 1, 0, 0))

\* the accept-or-reject step and pairs.push for draft section j, then the rest
cvPush(templates, drafts, issues, j, used, pairs, best) ==
    LET accepted == cvAccepts(best.bestMatch, best.bestScore)
        pair == [templateSection |->
                     IF accepted THEN templates[best.bestMatch].id ELSE NULL,
                 draftSection |-> drafts[j].id,
                 matchScore |-> IF accepted THEN best.bestScore ELSE 0,
                 issues |-> issuesBySectionId(issues, drafts[j].id)]
    IN  cvLoop(templates, drafts, issues, j + 1,
               cvClaim(used, templates, best.bestMatch, best.bestScore),
               Append(pairs, pair))

\* a variant of cvNewUsedTemplateIds in which the set outlives the run
cvKeptUsedTemplateIds(previous) == previous

\* const usedTemplateIds = new Set<string>(): nothing survives the previous run
cvNewUsedTemplateIds(previous) == {}

(***************************************************************************)
(* ReviewDashboard.sectionMatches (the strict aligner).                    *)
(***************************************************************************)
RdFloor == 40

rdNumberScore(draft, template) ==
    IF draft.number # NULL /\ template.number # NULL
    THEN IF draft.number = template.number THEN 100 ELSE 0
    ELSE 0

rdTitleScore(draft, template) ==
    IF draft.title # NULL /\ template.title # NULL
    THEN LET t1 == toLowerCase(draft.title)
             t2 == toLowerCase(template.title)
         IN  IF t1 = t2 THEN 80
             ELSE IF includes(t1, t2) \/ includes(t2, t1) THEN 40
             ELSE 0
    ELSE 0

rdScore(draft, template) == rdNumberScore(draft, template) + rdTitleScore(draft, template)

RECURSIVE rdBest(_, _, _, _, _, _)
RECURSIVE rdBetter(_, _, _, _, _, _, _)
rdBest(templates, draft, used, i, bestMatch, bestScore) ==
    IF i > Len(templates) THEN [bestMatch |-> bestMatch, bestScore |-> bestScore]
    ELSE IF templates[i].id \in used
         THEN rdBest(templates, draft, used, i + 1, bestMatch, bestScore)
         ELSE rdBetter(templates, draft, used, i, bestMatch, bestScore,
                       rdScore(draft, templates[i]))

\* if (score > bestScore) { bestScore = score; bestMatch = templateSection; }
rdBetter(templates, draft, used, i, bestMatch, bestScore, score) ==
    IF score > bestScore
    THEN rdBest(templates, draft, used, i + 1, i, score)
    ELSE rdBest(templates, draft, used, i + 1, bestMatch, bestScore)

\* if (bestMatch && bestScore >= 40)
rdAccepts(bestMatch, bestScore) == bestMatch # 0 /\ bestScore >= RdFloor

\* a variant of rdClaim that never records the claim
rdClaimForgotten(used, templates, bestMatch, bestScore) == used

rdClaim(used, templates, bestMatch, bestScore) ==
    IF rdAccepts(bestMatch, bestScore) THEN used \cup {templates[bestMatch].id} ELSE used

rdStatus(matched, issues) ==
    IF ~matched THEN "new"
    ELSE IF \E k \in 1..Len(issues) : issues[k].severity = "high" THEN "error"
    ELSE IF (\E k \in 1..Len(issues) : issues[k].severity = "medium") \/ Len(issues) > 0
         THEN "warning"
    ELSE "ok"

RECURSIVE rdLoop(_, _, _, _, _, _)
RECURSIVE rdPush(_, _, _, _, _, _, _)
rdLoop(templates, drafts, issues, j, used, out) ==
    IF j > Len(drafts) THEN [matches |-> out, used |-> used]
    ELSE rdPush(templates, drafts, issues, j, used, out,
                rdBest(templates, drafts[j], used, 1, 0, 0))

\* the accept-or-reject step and matches.push for draft section j, then the rest
rdPush(templates, drafts, issues, j, used, out, best) ==
    LET accepted == rdAccepts(best.bestMatch, best.bestScore)
        mine == issuesBySectionId(issues, drafts[j].id)
        match == [draftSection |-> drafts[j].id,
                  templateSection |->
                      IF accepted THEN templates[best.bestMatch].id ELSE NULL,
                  issues |-> mine,
                  status |-> rdStatus(accepted, mine)]
    IN  rdLoop(templates, drafts, issues, j + 1,
               rdClaim(used, templates, best.bestMatch, best.bestScore),
               Append(out, match))

(***************************************************************************)
(* docxParser.matchSections (used by analyzeSOWs).                         *)
(***************************************************************************)
msNumberScore(newSection, template) ==
    IF newSection.number # NULL /\ template.number # NULL
    THEN IF newSection.number = template.number THEN 100
         ELSE IF \/ startsWith(newSection.number, template.number)
                 \/ startsWith(template.number, newSection.number)
              THEN 50
              ELSE 0
    ELSE 0

msTitleScore(newSection, template) ==
    IF newSection.title # NULL /\ template.title # NULL
    THEN LET newTitle == toLowerCase(newSection.title)
             templateTitle == toLowerCase(template.title)
         IN  IF newTitle = templateTitle THEN 80
             ELSE IF includes(newTitle, templateTitle) \/ includes(templateTitle, newTitle)
                  THEN 40
             ELSE 0
    ELSE 0

msLevelScore(newSection, template) == IF newSection.level = template.level THEN 10 ELSE 0

msScore(newSection, template) ==
    msNumberScore(newSection, template) + msTitleScore(newSection, template)
        + msLevelScore(newSection, template)

\* the inner loop: every template section is scored, claimed or not
RECURSIVE msBest(_, _, _, _, _)
RECURSIVE msBetter(_, _, _, _, _, _)
msBest(templates, newSection, i, bestMatch, bestScore) ==
    IF i > Len(templates) THEN [bestMatch |-> bestMatch, bestScore |-> bestScore]
    ELSE msBetter(templates, newSection, i, bestMatch, bestScore,
                  msScore(newSection, templates[i]))

\* a variant of msBetter in which an equal score replaces the candidate too
msBetterOnTie(templates, newSection, i, bestMatch, bestScore, score) ==
    IF score >= bestScore
    THEN msBest(templates, newSection, i + 1, i, score)
    ELSE msBest(templates, newSection, i + 1, bestMatch, bestScore)

\* if (score > bestScore) { bestScore = score; bestMatch = templateSection; }
msBetter(templates, newSection, i, bestMatch, bestScore, score) ==
    IF score > bestScore
    THEN msBest(templates, newSection, i + 1, i, score)
    ELSE msBest(templates, newSection, i + 1, bestMatch, bestScore)

\* matches.set(key, value)
mapSet(map, key, value) ==
    [k \in DOMAIN map \cup {key} |-> IF k = key THEN value ELSE map[k]]

RECURSIVE msLoop(_, _, _, _)
RECURSIVE msSet(_, _, _, _, _)
msLoop(templates, newSections, j, map) ==
    IF j > Len(newSections) THEN map
    ELSE msSet(templates, newSections, j, map, msBest(templates, newSections[j], 1, 0, 0))

\* matches.set(newSection.id, bestMatch?.id || null), then the rest
msSet(templates, newSections, j, map, best) ==
    msLoop(templates, newSections, j + 1,
           mapSet(map, newSections[j].id,
                  IF best.bestMatch # 0 THEN templates[best.bestMatch].id ELSE NULL))

matchSections(templates, newSections) == msLoop(templates, newSections, 1, <<>>)

(***************************************************************************)
(* The aligners' specification: two parsed documents, and the three        *)
(* aligners run (and re-run) over them in any order while the analysis     *)
(* shown beside them changes.                                              *)
(***************************************************************************)
MaxTemplateSections == 2
MaxDraftSections == 2

\* a Section as the parser builds it: the level is derived from the number
Section(id, content) ==
    [id |-> id, number |-> content.number, title |-> content.title,
     level |-> calculateSectionLevel(content.number), body |-> content.body]

ContentLists(n) == UNION {[1..k -> SectionContents] : k \in 0..n}

\* analysis.allIssues: no issue, or one high-severity issue on the first draft section
IssueLists(drafts) ==
    {<<>>} \cup {<<[sectionId |-> drafts[j].id, severity |-> "high"]>> :
                    j \in 1..Min(1, Len(drafts))}

AlignInit ==
    /\ \E contents \in ContentLists(MaxTemplateSections) :
           templateSections = [i \in 1..Len(contents) |-> Section(TemplateId(i), contents[i])]
    /\ \E contents \in ContentLists(MaxDraftSections) :
           draftSections = [j \in 1..Len(contents) |-> Section(DraftId(j), contents[j])]
    /\ allIssues = <<>>
    /\ sectionPairs = <<>>
    /\ cvUsedTemplateIds = {}
    /\ sectionMatches = <<>>
    /\ rdUsedTemplateIds = {}
    /\ matches = <<>>
    /\ ran = {}

SimIdle == str1 = <<>> /\ str2 = <<>> /\ similarity = -1
SegIdle == paragraphs = <<>> /\ sections = <<>> /\ segmented = FALSE

\* ComparisonView renders: the sectionPairs memo is computed
RenderComparisonView ==
    /\ LET run == cvLoop(templateSections, draftSections, allIssues, 1,
                         cvNewUsedTemplateIds(cvUsedTemplateIds), <<>>)
       IN  /\ sectionPairs' = run.pairs
           /\ cvUsedTemplateIds' = run.used
    /\ ran' = ran \cup {"ComparisonView"}
    /\ UNCHANGED <<templateSections, draftSections, allIssues, sectionMatches,
                   rdUsedTemplateIds, matches, simVars, segVars, serviceVars>>

\* ReviewDashboard renders: the sectionMatches memo is computed
RenderReviewDashboard ==
    /\ LET run == rdLoop(templateSections, draftSections, allIssues, 1, {}, <<>>)
       IN  /\ sectionMatches' = run.matches
           /\ rdUsedTemplateIds' = run.used
    /\ ran' = ran \cup {"ReviewDashboard"}
    /\ UNCHANGED <<templateSections, draftSections, allIssues, sectionPairs,
                   cvUsedTemplateIds, matches, simVars, segVars, serviceVars>>

\* analyzeSOWs calls matchSections(templateSow.sections, newSow.sections)
CallMatchSections ==
    /\ matches' = matchSections(templateSections, draftSections)
    /\ ran' = ran \cup {"matchSections"}
    /\ UNCHANGED <<templateSections, draftSections, allIssues, sectionPairs,
                   cvUsedTemplateIds, sectionMatches, rdUsedTemplateIds, simVars, segVars, serviceVars>>

\* a new analysis arrives: the props change, the documents do not, and each
\* mounted view recomputes the memo that depends on analysis.allIssues
AnalysisChanges ==
    /\ \E issues \in IssueLists(draftSections) :
           /\ issues # allIssues
           /\ allIssues' = issues
           /\ IF "ComparisonView" \in ran
              THEN LET run == cvLoop(templateSections, draftSections, issues, 1,
                                     cvNewUsedTemplateIds(cvUsedTemplateIds), <<>>)
                   IN  /\ sectionPairs' = run.pairs
                       /\ cvUsedTemplateIds' = run.used
              ELSE UNCHANGED <<sectionPairs, cvUsedTemplateIds>>
           /\ IF "ReviewDashboard" \in ran
              THEN LET run == rdLoop(templateSections, draftSections, issues, 1, {}, <<>>)
                   IN  /\ sectionMatches' = run.matches
                       /\ rdUsedTemplateIds' = run.used
              ELSE UNCHANGED <<sectionMatches, rdUsedTemplateIds>>
    /\ UNCHANGED <<templateSections, draftSections, matches, ran, simVars, segVars, serviceVars>>

Init == AlignInit /\ SimIdle /\ SegIdle /\ ServiceIdle

Next ==
    \/ RenderComparisonView
    \/ RenderReviewDashboard
    \/ CallMatchSections
    \/ AnalysisChanges

Spec == Init /\ [][Next]_vars

(***************************************************************************)
(* Properties of the aligners.  The definitions below restate what the     *)
(* results must be from the two section lists alone.                       *)
(***************************************************************************)
IndexOfTemplate(id) ==
    CHOOSE i \in 1..Len(templateSections) : templateSections[i].id = id

MaxOf(S) == CHOOSE x \in S : \A y \in S : y <= x
MinOf(S) == CHOOSE x \in S : \A y \in S : x <= y

\* the template ids paired with the draft sections before position j
ClaimedBefore(result, j) == {result[i].templateSection : i \in 1..(j - 1)} \ {NULL}

\* the template positions whose ids are not among claimed
Unclaimed(claimed) ==
    {i \in 1..Len(templateSections) : templateSections[i].id \notin claimed}

BestScore(Score(_, _), j, candidates) ==
    MaxOf({0} \cup {Score(draftSections[j], templateSections[i]) : i \in candidates})

\* the first candidate, in template order, that reaches the best score (0: none scores)
FirstBest(Score(_, _), j, candidates) ==
    LET best == BestScore(Score, j, candidates)
    IN  IF best = 0 THEN 0
        ELSE MinOf({i \in candidates :
                       Score(draftSections[j], templateSections[i]) = best})

\* the pairing a view must show: per draft section, the best unclaimed template
\* section if its score reaches the floor, and null otherwise
PairedAsSpecified(result, Score(_, _), floor) ==
    /\ Len(result) = Len(draftSections)
    /\ \A j \in 1..Len(result) :
           LET candidates == Unclaimed(ClaimedBefore(result, j))
               best == BestScore(Score, j, candidates)
               paired == result[j].templateSection
           IN  /\ result[j].draftSection = draftSections[j].id
               /\ paired # NULL <=> best >= floor
               /\ paired # NULL =>
                      /\ IndexOfTemplate(paired) \in candidates
                      /\ Score(draftSections[j], templateSections[IndexOfTemplate(paired)])
                             = best

\* C1: after matchSections, no two distinct draft-section ids map to the same
\* non-null template-section id.
MatchSectionsInjective ==
    "matchSections" \in ran =>
        \A d1, d2 \in DOMAIN matches :
            (d1 # d2 /\ matches[d1] # NULL) => matches[d1] # matches[d2]

\* C2: in sectionPairs (ComparisonView) and sectionMatches (ReviewDashboard) no
\* template section is paired with more than one draft section, and the set of
\* claimed ids is exactly the set of paired template sections.
PairingInjective ==
    /\ "ComparisonView" \in ran =>
           /\ \A i, j \in 1..Len(sectionPairs) :
                  (i # j /\ sectionPairs[i].templateSection # NULL)
                      => sectionPairs[i].templateSection # sectionPairs[j].templateSection
           /\ Cardinality(cvUsedTemplateIds)
                  = Cardinality({j \in 1..Len(sectionPairs) :
                                    sectionPairs[j].templateSection # NULL})
    /\ "ReviewDashboard" \in ran =>
           /\ \A i, j \in 1..Len(sectionMatches) :
                  (i # j /\ sectionMatches[i].templateSection # NULL)
                      => sectionMatches[i].templateSection
                             # sectionMatches[j].templateSection
           /\ Cardinality(rdUsedTemplateIds)
                  = Cardinality({j \in 1..Len(sectionMatches) :
                                    sectionMatches[j].templateSection # NULL})

\* two draft sections, the later of which scores best, among all template
\* sections, on the one the earlier was paired with, in both views
PairingInjectiveWitness ==
    /\ {"ComparisonView", "ReviewDashboard"} \subseteq ran
    /\ \E i, j \in 1..Len(draftSections) :
           /\ i < j
           /\ sectionPairs[i].templateSection # NULL
           /\ sectionMatches[i].templateSection # NULL
           /\ FirstBest(cvScore, j, 1..Len(templateSections))
                  = IndexOfTemplate(sectionPairs[i].templateSection)
           /\ FirstBest(rdScore, j, 1..Len(templateSections))
                  = IndexOfTemplate(sectionMatches[i].templateSection)

\* C3: matchSections maps a draft section to a template section only if the
\* pair's score reaches the floor (30 at the most lenient), and to null when no
\* template section reaches it.
MatchSectionsRespectsFloor ==
    "matchSections" \in ran =>
        \A j \in 1..Len(draftSections) :
            LET mapped == matches[draftSections[j].id]
            IN  /\ mapped # NULL =>
                       msScore(draftSections[j], templateSections[IndexOfTemplate(mapped)])
                           >= CvFloor
                /\ (\A i \in 1..Len(templateSections) :
                        msScore(draftSections[j], templateSections[i]) < CvFloor)
                       => mapped = NULL

\* C4: ComparisonView pairs a draft section with its best-scoring unclaimed
\* template section exactly when that score is at least 30, ReviewDashboard
\* exactly when it is at least 40; otherwise the draft section is unmatched
\* (shown as "new") and the rejected candidate is not marked claimed.
PairedExactlyAtFloor ==
    /\ "ComparisonView" \in ran =>
           /\ PairedAsSpecified(sectionPairs, cvScore, 10 * CvFloor)
           /\ cvUsedTemplateIds = ClaimedBefore(sectionPairs, Len(sectionPairs) + 1)
    /\ "ReviewDashboard" \in ran =>
           /\ PairedAsSpecified(sectionMatches, rdScore, RdFloor)
           /\ rdUsedTemplateIds = ClaimedBefore(sectionMatches, Len(sectionMatches) + 1)
           /\ \A j \in 1..Len(sectionMatches) :
                  sectionMatches[j].status = "new"
                      <=> sectionMatches[j].templateSection = NULL

\* ComparisonView rejected a candidate with a positive score below the floor for
\* one draft section and paired that same template section with a later one;
\* ReviewDashboard left a draft section unmatched and paired a later one
PairedExactlyAtFloorWitness ==
    /\ {"ComparisonView", "ReviewDashboard"} \subseteq ran
    /\ \E i, j \in 1..Len(draftSections) :
           /\ i < j
           /\ sectionPairs[i].templateSection = NULL
           /\ sectionPairs[j].templateSection # NULL
           /\ LET rejected == FirstBest(cvScore, i, Unclaimed(ClaimedBefore(sectionPairs, i)))
              IN  /\ rejected # 0
                  /\ templateSections[rejected].id = sectionPairs[j].templateSection
           /\ sectionMatches[i].templateSection = NULL
           /\ sectionMatches[j].templateSection # NULL

\* C5: when draft sections A and B (A earlier) both score best, at or above the
\* floor, on the same unclaimed template section T, A is paired with T and B is
\* paired with its best remaining unclaimed template section if that reaches
\* the floor, and is otherwise unmatched; B is never paired with T.
Competing(result, Score(_, _), floor, a, b) ==
    LET candidates == Unclaimed(ClaimedBefore(result, a))
        contested == FirstBest(Score, a, candidates)
    IN  /\ a < b
        /\ contested # 0
        /\ contested = FirstBest(Score, b, candidates)
        /\ BestScore(Score, a, candidates) >= floor
        /\ BestScore(Score, b, candidates) >= floor

FirstClaimWins(result, Score(_, _), floor) ==
    \A a, b \in 1..Len(draftSections) :
        Competing(result, Score, floor, a, b) =>
            LET contested == FirstBest(Score, a, Unclaimed(ClaimedBefore(result, a)))
                remaining == Unclaimed(ClaimedBefore(result, b))
                fallback == FirstBest(Score, b, remaining)
            IN  /\ result[a].templateSection = templateSections[contested].id
                /\ result[b].templateSection # templateSections[contested].id
                /\ contested \notin remaining
                /\ result[b].templateSection =
                       IF BestScore(Score, b, remaining) >= floor
                       THEN templateSections[fallback].id
                       ELSE NULL

DocumentOrderWins ==
    /\ "ComparisonView" \in ran => FirstClaimWins(sectionPairs, cvScore, 10 * CvFloor)
    /\ "ReviewDashboard" \in ran => FirstClaimWins(sectionMatches, rdScore, RdFloor)

\* in both views B scores higher than A on the contested template section and
\* falls back to another one
DocumentOrderWinsWitness ==
    /\ {"ComparisonView", "ReviewDashboard"} \subseteq ran
    /\ \E a, b \in 1..Len(draftSections) :
           /\ Competing(sectionPairs, cvScore, 10 * CvFloor, a, b)
           /\ Competing(sectionMatches, rdScore, RdFloor, a, b)
           /\ LET t == IndexOfTemplate(sectionPairs[a].templateSection)
              IN  /\ cvScore(draftSections[b], templateSections[t])
                         > cvScore(draftSections[a], templateSections[t])
                  /\ rdScore(draftSections[b], templateSections[t])
                         > rdScore(draftSections[a], templateSections[t])
           /\ sectionPairs[b].templateSection # NULL
           /\ sectionMatches[b].templateSection # NULL

\* C6: running an aligner again on the same two section lists yields the same
\* draft-to-template map, whatever the previous run left behind and whatever
\* analysis is displayed.
PairMap(result) ==
    [j \in 1..Len(result) |-> <<result[j].draftSection, result[j].templateSection>>]

IsPaymentTerms(section, number) ==
    section.number = number /\ section.title = <<"P","a","y","m","e","n","t"," ","T","e","r","m","s">>

PrefixScenarioScores ==
    \A j \in 1..Len(draftSections), i \in 1..Len(templateSections) :
        (/\ IsPaymentTerms(draftSections[j], <<"3",".","1">>)
         /\ IsPaymentTerms(templateSections[i], <<"3">>))
        => LET d == draftSections[j]
               tm == templateSections[i]
               alone == Len(draftSections) = 1 /\ Len(templateSections) = 1
           IN  /\ "ComparisonView" \in ran =>
                      /\ cvNumberScore(d, tm) = 50
                      /\ cvScore(d, tm) >= 900
                      /\ alone => sectionPairs[j].templateSection = tm.id
               /\ "ReviewDashboard" \in ran =>
                      /\ rdNumberScore(d, tm) = 50
                      /\ rdScore(d, tm) >= 90
                      /\ alone => sectionMatches[j].templateSection = tm.id
               /\ "matchSections" \in ran =>
                      /\ msNumberScore(d, tm) = 50
                      /\ msScore(d, tm) >= 90
                      /\ alone => matches[d.id] = tm.id

\* C8 as stated: in ComparisonView a draft section with no number whose title
\* shares no word with any template title scores below 30 against every
\* template section and is unmatched.
titleWords(section) == Range(splitWords(toLowerCase(section.title)))

Unrelated(j) ==
    /\ draftSections[j].number = NULL
    /\ \A i \in 1..Len(templateSections) :
           titleWords(draftSections[j]) \cap titleWords(templateSections[i]) = {}

UnrelatedScoresBelowFloor ==
    "ComparisonView" \in ran =>
        \A j \in 1..Len(draftSections) :
            Unrelated(j) =>
                /\ \A i \in 1..Len(templateSections) :
                       cvScore(draftSections[j], templateSections[i]) < 10 * CvFloor
                /\ sectionPairs[j].templateSection = NULL

\* C8 as amended: such a draft section scores at most 30 against every template
\* section, and 30 only against one of its own level whose body prefix has
\* similarity 100 with its own; it is unmatched exactly when no such template
\* section is still unclaimed.
SameLevelSameBody(j, i) ==
    /\ draftSections[j].level = templateSections[i].level
    /\ calculateSimilarity(substring(draftSections[j].body, BodyPrefixLength),
                           substring(templateSections[i].body, BodyPrefixLength)) = 100

UnrelatedScoresAtMostFloor ==
    "ComparisonView" \in ran =>
        \A j \in 1..Len(draftSections) :
            Unrelated(j) =>
                /\ \A i \in 1..Len(templateSections) :
                       /\ cvScore(draftSections[j], templateSections[i]) <= 10 * CvFloor
                       /\ cvScore(draftSections[j], templateSections[i]) = 10 * CvFloor
                              <=> SameLevelSameBody(j, i)
                /\ sectionPairs[j].templateSection = NULL
                       <=> \A i \in Unclaimed(ClaimedBefore(sectionPairs, j)) :
                               ~SameLevelSameBody(j, i)

\* an unrelated draft section left unmatched although an unclaimed template
\* section scored above zero against it
UnrelatedScoresAtMostFloorWitness ==
    /\ "ComparisonView" \in ran
    /\ \E j \in 1..Len(draftSections) :
           /\ Unrelated(j)
           /\ sectionPairs[j].templateSection = NULL
           /\ \E i \in Unclaimed(ClaimedBefore(sectionPairs, j)) :
                  cvScore(draftSections[j], templateSections[i]) > 0

(***************************************************************************)
(* calculateSimilarity on its own: a call with two strings.                *)
(***************************************************************************)
\* the i-th of a family of distinct two-letter words: "aa", "ab", ...
Word(i) == <<LowerCase[(i - 1) \div 26 + 1], LowerCase[((i - 1) % 26) + 1]>>

\* the words lo..hi joined by single spaces
WordsFromTo(lo, hi) ==
    [k \in 1..(3 * (hi - lo + 1) - 1) |->
        IF k % 3 = 0 THEN " " ELSE Word(lo + (k - 1) \div 3)[k % 3]]

SimilarityInputs ==
    { <<>>,
      <<" ">>,
      <<"a">>,
      <<"A">>,
      <<"a"," ","b">>,
      <<"b"," "," ","a">>,
      <<"a","\t","c"," ","a">>,
      <<"P","a","y","m","e","n","t"," ","T","e","r","m","s">>,
      <<"T","e","r","m","s">>,
      <<"a"," ","b"," ","c"," ","d"," ","e">>,
      <<"a"," ","f"," ","g"," ","h">>,
      WordsFromTo(1, 32),
      WordsFromTo(1, 23) \o <<" ">> \o WordsFromTo(33, 40) }

SimInit ==
    /\ str1 \in SimilarityInputs
    /\ str2 \in SimilarityInputs
    /\ similarity = -1

AlignIdle ==
    /\ templateSections = <<>>
    /\ draftSections = <<>>
    /\ allIssues = <<>>
    /\ sectionPairs = <<>>
    /\ cvUsedTemplateIds = {}
    /\ sectionMatches = <<>>
    /\ rdUsedTemplateIds = {}
    /\ matches = <<>>
    /\ ran = {}

CallCalculateSimilarity ==
    /\ similarity = -1
    /\ similarity' = calculateSimilarity(str1, str2)
    /\ UNCHANGED <<str1, str2, alignVars, segVars, serviceVars>>

InitSimilarity == SimInit /\ AlignIdle /\ SegIdle /\ ServiceIdle

SpecSimilarity == InitSimilarity /\ [][CallCalculateSimilarity]_vars

\* C9: calculateSimilarity(a, b) is an integer in [0,100]; 100 when a and b are
\* the same non-empty string, 100 when both are empty, 0 when exactly one is
\* empty; for non-empty inputs it equals round(100 * |A \cap B| / |A \cup B|)
\* over the sets of lower-cased whitespace-separated tokens (nothing is required
\* of the quotient where the union is empty).
tokens(str) == Range(splitWords(toLowerCase(str)))

\* round(100 * n / d), halves rounded up
RoundedPercent(n, d) == (200 * n + d) \div (2 * d)

SimilarityAsSpecified ==
    similarity # -1 =>
        /\ similarity \in 0..100
        /\ (str1 = str2 /\ str1 # <<>>) => similarity = 100
        /\ (str1 = <<>> /\ str2 = <<>>) => similarity = 100
        /\ ((str1 = <<>>) # (str2 = <<>>)) => similarity = 0
        /\ (str1 # <<>> /\ str2 # <<>> /\ tokens(str1) \cup tokens(str2) # {}) =>
               similarity = RoundedPercent(Cardinality(tokens(str1) \cap tokens(str2)),
                                           Cardinality(tokens(str1) \cup tokens(str2)))

(***************************************************************************)
(* docxParser (the HTML-aware parser): isTocEntry, detectSectionHeader and *)
(* extractSectionsFromHtml.  The regular expressions are matched character *)
(* by character; where a greedy match could backtrack, the comments say    *)
(* why the longest match decides.                                          *)
(***************************************************************************)
HeaderMinLength == 3
HeaderMaxLength == 150
TitleOnlyMaxLength == 60
TocExitLength == 60

\* the middle dot and the horizontal ellipsis, named as HTML names them
MiddleDot == "middot"
Ellipsis == "hellip"
DotLeaders == {".", MiddleDot, Ellipsis}

\* the largest e >= i - 1 such that s[i..e] lies in class
runEnd(s, i, class) ==
    MaxOf({e \in (i - 1)..Len(s) : \A k \in i..e : s[k] \in class})

\* the smallest b <= e + 1 such that s[b..e] lies in class
runStart(s, e, class) ==
    MinOf({b \in 1..(e + 1) : \A k \in b..e : s[k] \in class})

\* String.prototype.trim
trim(s) ==
    LET first == runEnd(s, 1, Whitespace) + 1
        last == runStart(s, Len(s), Whitespace) - 1
    IN  IF first > last THEN <<>> ELSE SubSeq(s, first, last)

\* /[.·…]{3,}\s*\d+\s*$/.test(text) || /\t+\d+\s*$/.test(text)
\* The digits must end where the trailing whitespace begins, and the digit run
\* is the whole run: a shorter one would be preceded by a digit, which neither
\* \s* nor the leaders nor a tab matches.
isTocEntry(text) ==
    LET lastDigit == runStart(text, Len(text), Whitespace) - 1
        firstDigit == runStart(text, lastDigit, Digits)
        lastLeader == runStart(text, firstDigit - 1, Whitespace) - 1
        firstLeader == runStart(text, lastLeader, DotLeaders)
    IN  /\ firstDigit <= lastDigit
        /\ \/ lastLeader - firstLeader + 1 >= 3
           \/ (firstDigit > 1 /\ text[firstDigit - 1] = "\t")

\* the end of the longest match of \d+(?:\.\d+)* starting at i (i - 1: no match)
numberTokenEnd(s, i) ==
    MaxOf({i - 1} \cup
          {e \in i..Len(s) :
              /\ \A k \in i..e : s[k] \in Digits \cup {"."}
              /\ s[i] \in Digits
              /\ s[e] \in Digits
              /\ \A k \in i..(e - 1) : ~(s[k] = "." /\ s[k + 1] = ".")})

\* the end of the longest match of [IVXLCDM\d]+ (case-insensitive) starting at i
articleTokenEnd(s, i) ==
    MaxOf({e \in (i - 1)..Len(s) :
              \A k \in i..e : toUpperChar(s[k]) \in RomanChars \cup Digits})

\* (.+) or (.*) up to $: no line terminator from i to the end
noLineBreakFrom(s, i) == \A k \in i..Len(s) : s[k] # "\n"

\* match[2]?.trim() || "Untitled"
titleOrUntitled(rest) ==
    IF trim(rest) = <<>> THEN <<"U","n","t","i","t","l","e","d">> ELSE trim(rest)

noHeader == [found |-> FALSE, number |-> NULL, title |-> NULL]

\* /^(\d+(?:\.\d+)*)\.\s+(.+)$/  A shorter number token is followed by a digit
\* or by ".digit", never by the ". " the pattern needs, so the longest decides.
matchNumbered(s) ==
    LET e == numberTokenEnd(s, 1)
    IN  IF /\ e >= 1
           /\ e + 3 <= Len(s)
           /\ s[e + 1] = "."
           /\ \E k \in (e + 3)..Len(s) :
                  /\ \A m \in (e + 2)..(k - 1) : s[m] \in Whitespace
                  /\ noLineBreakFrom(s, k)
        THEN [found |-> TRUE, number |-> SubSeq(s, 1, e),
              title |-> titleOrUntitled(SubSeq(s, e + 2, Len(s)))]
        ELSE noHeader

\* the text after an optional ":" or "." at position i
afterPunctuation(s, i) ==
    IF i <= Len(s) /\ s[i] \in {":", "."} THEN SubSeq(s, i + 1, Len(s))
    ELSE SubSeq(s, i, Len(s))

\* /^(?:SECTION|Section)\s+(\d+(?:\.\d+)*)[:\.]?\s*(.*)$/i
matchSectionKeyword(s) ==
    LET keyword == <<"s","e","c","t","i","o","n">>
        start == runEnd(s, Len(keyword) + 1, Whitespace) + 1
        e == numberTokenEnd(s, start)
    IN  IF /\ startsWith(toLowerCase(s), keyword)
           /\ start > Len(keyword) + 1
           /\ e >= start
           /\ noLineBreakFrom(afterPunctuation(s, e + 1),
                              runEnd(afterPunctuation(s, e + 1), 1, Whitespace) + 1)
        THEN [found |-> TRUE, number |-> SubSeq(s, start, e),
              title |-> titleOrUntitled(afterPunctuation(s, e + 1))]
        ELSE noHeader

\* /^(?:ARTICLE|Article)\s+([IVXLCDM\d]+)[:\.]?\s*(.*)$/i
matchArticleKeyword(s) ==
    LET keyword == <<"a","r","t","i","c","l","e">>
        start == runEnd(s, Len(keyword) + 1, Whitespace) + 1
        e == articleTokenEnd(s, start)
    IN  IF /\ startsWith(toLowerCase(s), keyword)
           /\ start > Len(keyword) + 1
           /\ e >= start
           /\ noLineBreakFrom(afterPunctuation(s, e + 1),
                              runEnd(afterPunctuation(s, e + 1), 1, Whitespace) + 1)
        THEN [found |-> TRUE, number |-> SubSeq(s, start, e),
              title |-> titleOrUntitled(afterPunctuation(s, e + 1))]
        ELSE noHeader

\* SECTION_TITLE_PATTERNS, all but the last: the lower-cased words of the text,
\* which the patterns separate by \s+
SectionTitlePhrases ==
    { <<<<"e","x","e","c","u","t","i","v","e">>, <<"s","u","m","m","a","r","y">>>>,
      <<<<"s","c","o","p","e">>, <<"o","f">>, <<"w","o","r","k">>>>,
      <<<<"s","c","o","p","e">>, <<"o","f">>, <<"s","e","r","v","i","c","e","s">>>>,
      <<<<"d","e","l","i","v","e","r","a","b","l","e","s">>>>,
      <<<<"t","i","m","e","l","i","n","e">>>>,
      <<<<"m","i","l","e","s","t","o","n","e">>>>,
      <<<<"m","i","l","e","s","t","o","n","e","s">>>>,
      <<<<"p","a","y","m","e","n","t">>, <<"t","e","r","m">>>>,
      <<<<"p","a","y","m","e","n","t">>, <<"t","e","r","m","s">>>>,
      <<<<"p","r","i","c","i","n","g">>>>,
      <<<<"f","e","e">>>>,
      <<<<"f","e","e","s">>>>,
      <<<<"t","e","r","m">>, <<"a","n","d">>, <<"t","e","r","m","i","n","a","t","i","o","n">>>>,
      <<<<"t","e","r","m","s">>, <<"a","n","d">>, <<"t","e","r","m","i","n","a","t","i","o","n">>>>,
      <<<<"t","e","r","m","i","n","a","t","i","o","n">>>>,
      <<<<"c","o","n","f","i","d","e","n","t","i","a","l","i","t","y">>>>,
      <<<<"i","n","t","e","l","l","e","c","t","u","a","l">>, <<"p","r","o","p","e","r","t","y">>>>,
      <<<<"l","i","a","b","i","l","i","t","y">>>>,
      <<<<"l","i","m","i","t","a","t","i","o","n">>, <<"o","f">>, <<"l","i","a","b","i","l","i","t","y">>>>,
      <<<<"i","n","d","e","m","n","i","f","i","c","a","t","i","o","n">>>>,
      <<<<"w","a","r","r","a","n","t","y">>>>,
      <<<<"w","a","r","r","a","n","t","i","e","s">>>>,
      <<<<"s","e","r","v","i","c","e">>, <<"l","e","v","e","l">>, <<"a","g","r","e","e","m","e","n","t">>>>,
      <<<<"s","l","a">>>>,
      <<<<"a","c","c","e","p","t","a","n","c","e">>, <<"c","r","i","t","e","r","i","a">>>>,
      <<<<"d","e","f","i","n","i","t","i","o","n">>>>,
      <<<<"d","e","f","i","n","i","t","i","o","n","s">>>>,
      <<<<"b","a","c","k","g","r","o","u","n","d">>>>,
      <<<<"i","n","t","r","o","d","u","c","t","i","o","n">>>>,
      <<<<"o","v","e","r","v","i","e","w">>>>,
      <<<<"a","s","s","u","m","p","t","i","o","n","s">>>>,
      <<<<"d","e","p","e","n","d","e","n","c","i","e","s">>>>,
      <<<<"e","x","c","l","u","s","i","o","n","s">>>> }

AlphaNumeric == {LowerCase[i] : i \in 1..26} \cup Digits

\* /^(appendix|exhibit|schedule)\s*[a-z0-9]*$/i
matchesAppendixPattern(lowerWords) ==
    \E keyword \in {<<"a","p","p","e","n","d","i","x">>, <<"e","x","h","i","b","i","t">>, <<"s","c","h","e","d","u","l","e">>} :
        /\ Len(lowerWords) \in {1, 2}
        /\ startsWith(lowerWords[1], keyword)
        /\ \A k \in (Len(keyword) + 1)..Len(lowerWords[1]) :
               lowerWords[1][k] \in AlphaNumeric
        /\ Len(lowerWords) = 2 =>
               /\ lowerWords[1] = keyword
               /\ \A k \in 1..Len(lowerWords[2]) : lowerWords[2][k] \in AlphaNumeric

matchesSectionTitle(trimmed) ==
    LET lowerWords == splitWords(toLowerCase(trimmed))
    IN  lowerWords \in SectionTitlePhrases \/ matchesAppendixPattern(lowerWords)

\* trimmed === trimmed.toUpperCase() && trimmed.length > 3 && /[A-Z]/.test(trimmed)
isUpperCaseLine(trimmed) ==
    /\ trimmed = toUpperCase(trimmed)
    /\ Len(trimmed) > 3
    /\ \E k \in 1..Len(trimmed) : IsUpperChar(trimmed[k])

detectSectionHeader(text) ==
    LET trimmed == trim(text)
    IN  IF trimmed = <<>> \/ Len(trimmed) < HeaderMinLength \/ Len(trimmed) > HeaderMaxLength
        THEN noHeader
        ELSE IF isTocEntry(trimmed) THEN noHeader
        ELSE IF matchNumbered(trimmed).found THEN matchNumbered(trimmed)
        ELSE IF matchSectionKeyword(trimmed).found THEN matchSectionKeyword(trimmed)
        ELSE IF matchArticleKeyword(trimmed).found THEN matchArticleKeyword(trimmed)
        ELSE IF Len(trimmed) < TitleOnlyMaxLength
                /\ (matchesSectionTitle(trimmed) \/ isUpperCaseLine(trimmed))
             THEN [found |-> TRUE, number |-> NULL, title |-> trimmed]
        ELSE noHeader

\* /^table\s+of\s+contents$/i.test(trimmed) || /^contents$/i.test(trimmed)
isTocHeading(trimmed) ==
    splitWords(toLowerCase(trimmed))
        \in {<<<<"t","a","b","l","e">>, <<"o","f">>, <<"c","o","n","t","e","n","t","s">>>>, <<<<"c","o","n","t","e","n","t","s">>>>}

\* currentBody.join("\n\n")
RECURSIVE joinParagraphs(_)
joinParagraphs(body) ==
    IF Len(body) = 0 THEN <<>>
    ELSE IF Len(body) = 1 THEN body[1]
    ELSE body[1] \o <<"\n", "\n">> \o joinParagraphs(Tail(body))

\* sections.push(currentSection) with its body set, when a section is open
closeSection(state) ==
    IF state.open
    THEN Append(state.sections,
                [state.current EXCEPT !.body = joinParagraphs(state.currentBody)])
    ELSE state.sections

SectionId(k) == <<"section", k>>

\* the section opened by an accepted header
headerSection(headerInfo, closed) ==
    [id |-> SectionId(Len(closed) + 1), number |-> headerInfo.number,
     title |-> headerInfo.title, level |-> calculateSectionLevel(headerInfo.number),
     body |-> <<>>, startIndex |-> Len(closed)]

\* the implicit section opened by a paragraph that precedes every header
introductionSection(closed) ==
    [id |-> SectionId(Len(closed) + 1), number |-> NULL,
     title |-> <<"I","n","t","r","o","d","u","c","t","i","o","n">>, level |-> 1, body |-> <<>>, startIndex |-> 0]

introductionBodyEmpty(trimmed) == <<>>

\* currentBody = [trimmed] when the introduction section is opened
introductionBody(trimmed) == <<trimmed>>

\* tocSectionDetected after the test "end TOC detection when we hit a real section"
tocAfterLongLine(toc, trimmed) ==
    IF toc /\ ~isTocEntry(trimmed) /\ Len(trimmed) > TocExitLength THEN FALSE ELSE toc

\* a variant of tocSkips that skips nothing
tocSkipsNothing(toc, trimmed) == FALSE

\* if (tocSectionDetected && isTocEntry(trimmed)) continue
tocSkips(toc, trimmed) == toc /\ isTocEntry(trimmed)

\* one iteration of the loop over the paragraphs
segmentStep(state, para) ==
    LET trimmed == trim(para)
        toc == tocAfterLongLine(state.toc, trimmed)
        headerInfo == detectSectionHeader(trimmed)
        closed == closeSection(state)
    IN  IF trimmed = <<>> THEN state
        ELSE IF isTocHeading(trimmed) THEN [state EXCEPT !.toc = TRUE]
        ELSE IF tocSkips(state.toc, trimmed) THEN state
        ELSE IF headerInfo.found
             THEN [sections |-> closed, open |-> TRUE,
                   current |-> headerSection(headerInfo, closed),
                   currentBody |-> <<>>, toc |-> FALSE]
        ELSE IF state.open
             THEN [state EXCEPT !.toc = toc,
                                !.currentBody = IF ~toc THEN Append(@, trimmed) ELSE @]
        ELSE [sections |-> state.sections, open |-> TRUE,
              current |-> introductionSection(state.sections),
              currentBody |-> introductionBody(trimmed), toc |-> toc]

RECURSIVE segmentLoop(_, _, _)
segmentLoop(state, paras, i) ==
    IF i > Len(paras) THEN state
    ELSE segmentLoop(segmentStep(state, paras[i]), paras, i + 1)

\* the loop of extractSectionsFromHtml over the extracted paragraphs, and the
\* final push of the open section
extractSectionsFromHtml(paras) ==
    closeSection(segmentLoop([sections |-> <<>>, open |-> FALSE,
                              current |-> introductionSection(<<>>),
                              currentBody |-> <<>>, toc |-> FALSE], paras, 1))

\* tocSectionDetected once the loop has read the first i paragraphs
tocSectionDetectedAfter(paras, i) ==
    segmentLoop([sections |-> <<>>, open |-> FALSE,
                 current |-> introductionSection(<<>>),
                 currentBody |-> <<>>, toc |-> FALSE], SubSeq(paras, 1, i), 1).toc

(***************************************************************************)
(* The plain-text parser: calculateSectionLevel, parseParagraphAsSection   *)
(* and extractSections of the variant that splits the raw text in lines.   *)
(***************************************************************************)
PlainTitleMaxLength == 150
PlainUpperCaseMaxLength == 100
PlainHeaderMaxLength == 200

AlphaNumericAnyCase == AlphaNumeric \cup {UpperCase[i] : i \in 1..26}

\* /^\([a-z0-9ivx]+\)$/i.test(number)
isParenthesizedToken(number) ==
    /\ Len(number) >= 3
    /\ number[1] = "("
    /\ number[Len(number)] = ")"
    /\ \A i \in 2..(Len(number) - 1) : number[i] \in AlphaNumericAnyCase

\* a variant of calculateSectionLevelPlain that tests for a single letter first
calculateSectionLevelLetterFirst(number) ==
    IF number = NULL THEN 1
    ELSE IF dotCount(number) > 0 THEN dotCount(number) + 1
    ELSE IF Len(number) = 1 /\ (IsUpperChar(number[1]) \/ IsLowerChar(number[1])) THEN 2
    ELSE 1

\* calculateSectionLevel of the plain-text parser
calculateSectionLevelPlain(number) ==
    IF number = NULL THEN 1
    ELSE IF dotCount(number) > 0 THEN dotCount(number) + 1
    ELSE IF isRomanToken(number) THEN 1
    ELSE IF Len(number) = 1 /\ (IsUpperChar(number[1]) \/ IsLowerChar(number[1])) THEN 2
    ELSE IF isParenthesizedToken(number) THEN 3
    ELSE 1

\* \s+(.+)$ from position i on: whitespace, then a non-empty rest of the line
spaceThenTitle(s, i) ==
    \E k \in (i + 1)..Len(s) :
        /\ \A m \in i..(k - 1) : s[m] \in Whitespace
        /\ noLineBreakFrom(s, k)

\* match[2]?.trim() || null
titleOrNull(rest) == trim(rest)

\* a numbering token s[first..e] followed by "." and a title
matchDottedToken(s, first, e) ==
    IF e >= first /\ e + 1 <= Len(s) /\ s[e + 1] = "." /\ spaceThenTitle(s, e + 2)
    THEN [found |-> TRUE, number |-> SubSeq(s, first, e),
          title |-> titleOrNull(SubSeq(s, e + 2, Len(s)))]
    ELSE noHeader

\* /^(\d+(?:\.\d+)*)\.\s+(.+)$/
plainMatchNumbered(s) == matchDottedToken(s, 1, numberTokenEnd(s, 1))

\* /^([IVXLCDM]+)\.\s+(.+)$/i   The token is the whole run of roman letters:
\* a shorter one is followed by a roman letter, not by the "." the pattern needs.
plainMatchRoman(s) ==
    matchDottedToken(s, 1, MaxOf({e \in 0..Len(s) :
                                     \A k \in 1..e : toUpperChar(s[k]) \in RomanChars}))

\* /^([A-Z])\.\s+(.+)$/
plainMatchLetter(s) ==
    matchDottedToken(s, 1, IF Len(s) >= 1 /\ IsUpperChar(s[1]) THEN 1 ELSE 0)

\* /^\(([a-z0-9ivx]+)\)\s+(.+)$/i
plainMatchParenthesized(s) ==
    LET e == runEnd(s, 2, AlphaNumericAnyCase)
    IN  IF /\ Len(s) >= 1 /\ s[1] = "("
           /\ e >= 2 /\ e + 1 <= Len(s) /\ s[e + 1] = ")"
           /\ spaceThenTitle(s, e + 2)
        THEN [found |-> TRUE, number |-> SubSeq(s, 2, e),
              title |-> titleOrNull(SubSeq(s, e + 2, Len(s)))]
        ELSE noHeader

\* the SECTION and ARTICLE patterns, which the two parsers share; the title
\* is null where the HTML-aware parser says "Untitled"
plainMatchKeyword(s, keyword, start, e) ==
    IF /\ startsWith(toLowerCase(s), keyword)
       /\ start > Len(keyword) + 1
       /\ e >= start
       /\ noLineBreakFrom(afterPunctuation(s, e + 1),
                          runEnd(afterPunctuation(s, e + 1), 1, Whitespace) + 1)
    THEN [found |-> TRUE, number |-> SubSeq(s, start, e),
          title |-> titleOrNull(afterPunctuation(s, e + 1))]
    ELSE noHeader

\* where the token after a keyword and its whitespace starts
keywordTokenStart(s, keyword) == runEnd(s, Len(keyword) + 1, Whitespace) + 1

plainMatchSection(s) ==
    plainMatchKeyword(s, <<"s","e","c","t","i","o","n">>,
                      keywordTokenStart(s, <<"s","e","c","t","i","o","n">>),
                      numberTokenEnd(s, keywordTokenStart(s, <<"s","e","c","t","i","o","n">>)))

plainMatchArticle(s) ==
    plainMatchKeyword(s, <<"a","r","t","i","c","l","e">>,
                      keywordTokenStart(s, <<"a","r","t","i","c","l","e">>),
                      articleTokenEnd(s, keywordTokenStart(s, <<"a","r","t","i","c","l","e">>)))

\* the first of SECTION_PATTERNS that matches
plainMatchPatterns(s) ==
    IF plainMatchNumbered(s).found THEN plainMatchNumbered(s)
    ELSE IF plainMatchRoman(s).found THEN plainMatchRoman(s)
    ELSE IF plainMatchLetter(s).found THEN plainMatchLetter(s)
    ELSE IF plainMatchParenthesized(s).found THEN plainMatchParenthesized(s)
    ELSE IF plainMatchSection(s).found THEN plainMatchSection(s)
    ELSE plainMatchArticle(s)

COMMON_SECTION_TITLES ==
    { <<"s","c","o","p","e"," ","o","f"," ","w","o","r","k">>,
      <<"s","c","o","p","e"," ","o","f"," ","s","e","r","v","i","c","e","s">>,
      <<"d","e","l","i","v","e","r","a","b","l","e","s">>,
      <<"t","i","m","e","l","i","n","e">>,
      <<"m","i","l","e","s","t","o","n","e","s">>,
      <<"p","a","y","m","e","n","t"," ","t","e","r","m","s">>,
      <<"p","r","i","c","i","n","g">>,
      <<"f","e","e","s">>,
      <<"t","e","r","m"," ","a","n","d"," ","t","e","r","m","i","n","a","t","i","o","n">>,
      <<"t","e","r","m","i","n","a","t","i","o","n">>,
      <<"c","o","n","f","i","d","e","n","t","i","a","l","i","t","y">>,
      <<"i","n","t","e","l","l","e","c","t","u","a","l"," ","p","r","o","p","e","r","t","y">>,
      <<"l","i","a","b","i","l","i","t","y">>,
      <<"l","i","m","i","t","a","t","i","o","n"," ","o","f"," ","l","i","a","b","i","l","i","t","y">>,
      <<"i","n","d","e","m","n","i","f","i","c","a","t","i","o","n">>,
      <<"w","a","r","r","a","n","t","y">>,
      <<"w","a","r","r","a","n","t","i","e","s">>,
      <<"s","e","r","v","i","c","e"," ","l","e","v","e","l"," ","a","g","r","e","e","m","e","n","t">>,
      <<"s","l","a">>,
      <<"a","c","c","e","p","t","a","n","c","e"," ","c","r","i","t","e","r","i","a">>,
      <<"c","h","a","n","g","e"," ","m","a","n","a","g","e","m","e","n","t">>,
      <<"g","o","v","e","r","n","a","n","c","e">>,
      <<"d","e","f","i","n","i","t","i","o","n","s">>,
      <<"b","a","c","k","g","r","o","u","n","d">>,
      <<"i","n","t","r","o","d","u","c","t","i","o","n">>,
      <<"o","v","e","r","v","i","e","w">>,
      <<"a","s","s","u","m","p","t","i","o","n","s">>,
      <<"d","e","p","e","n","d","e","n","c","i","e","s">>,
      <<"e","x","c","l","u","s","i","o","n","s">>,
      <<"a","p","p","e","n","d","i","x">>,
      <<"e","x","h","i","b","i","t">>,
      <<"s","c","h","e","d","u","l","e">> }

\* (trimmed === trimmed.toUpperCase() && trimmed.length < 100) ||
\* COMMON_SECTION_TITLES.some(t => trimmed.toLowerCase().includes(t))
isLikelyTitle(trimmed) ==
    \/ trimmed = toUpperCase(trimmed) /\ Len(trimmed) < PlainUpperCaseMaxLength
    \/ \E title \in COMMON_SECTION_TITLES : includes(toLowerCase(trimmed), title)

\* the Section of a header paragraph (found = FALSE: null)
parseParagraphAsSection(text, index) ==
    LET trimmed == trim(text)
    IN  IF trimmed = <<>> \/ Len(trimmed) < HeaderMinLength THEN [found |-> FALSE]
        ELSE IF plainMatchPatterns(trimmed).found
             THEN [found |-> TRUE, id |-> SectionId(index + 1),
                   number |-> plainMatchPatterns(trimmed).number,
                   title |-> plainMatchPatterns(trimmed).title,
                   level |-> calculateSectionLevelPlain(plainMatchPatterns(trimmed).number),
                   body |-> trimmed, startIndex |-> index]
        ELSE IF isLikelyTitle(trimmed) /\ Len(trimmed) < PlainTitleMaxLength
             THEN [found |-> TRUE, id |-> SectionId(index + 1), number |-> NULL,
                   title |-> trimmed, level |-> 1, body |-> trimmed, startIndex |-> index]
        ELSE [found |-> FALSE]

\* the section a header opens, without the marker of the match
plainHeaderSection(parsed) ==
    [id |-> parsed.id, number |-> parsed.number, title |-> parsed.title,
     level |-> parsed.level, body |-> parsed.body, startIndex |-> parsed.startIndex]

\* the generic section opened by a paragraph that precedes every header
plainIntroductionSection(index) ==
    [id |-> SectionId(index + 1), number |-> NULL, title |-> <<"I","n","t","r","o","d","u","c","t","i","o","n">>,
     level |-> 1, body |-> <<>>, startIndex |-> index]

\* the open section closed with its body and endIndex, when there is one
plainCloseSection(state, endIndex) ==
    IF state.open
    THEN Append(state.sections,
                [id |-> state.current.id, number |-> state.current.number,
                 title |-> state.current.title, level |-> state.current.level,
                 body |-> joinParagraphs(state.currentBody),
                 startIndex |-> state.current.startIndex, endIndex |-> endIndex])
    ELSE state.sections

\* one iteration of the loop, for the paragraph at index i (from 0)
plainStepWith(state, para, i, parsed) ==
    IF para = <<>> THEN state
    ELSE IF parsed.found
         THEN [sections |-> plainCloseSection(state, i - 1), open |-> TRUE,
               current |-> plainHeaderSection(parsed), currentBody |-> <<>>]
    ELSE IF state.open
         THEN [state EXCEPT !.currentBody = Append(@, para)]
    ELSE [sections |-> state.sections, open |-> TRUE,
          current |-> plainIntroductionSection(i), currentBody |-> <<para>>]

\* const potentialSection = isLikelyHeader ? parseParagraphAsSection(para, i) : null
plainStep(state, para, i) ==
    plainStepWith(state, para, i,
                  IF Len(para) < PlainHeaderMaxLength
                  THEN parseParagraphAsSection(para, i)
                  ELSE [found |-> FALSE])

RECURSIVE plainLoop(_, _, _)
plainLoop(state, paras, i) ==
    IF i >= Len(paras) THEN state
    ELSE plainLoop(plainStep(state, trim(paras[i + 1]), i), paras, i + 1)

\* the loop of extractSections over the non-blank lines, and the final push
extractSections(paras) ==
    plainCloseSection(plainLoop([sections |-> <<>>, open |-> FALSE,
                                 current |-> plainIntroductionSection(0),
                                 currentBody |-> <<>>], paras, 0),
                      Len(paras) - 1)

(***************************************************************************)
(* The segmenter on its own: a document is a list of extracted paragraphs, *)
(* already stripped and non-empty as lines 117-128 leave them.             *)
(***************************************************************************)
MaxParagraphs == 3

ParagraphTexts ==
    { <<"T","a","b","l","e"," ","o","f"," ","C","o","n","t","e","n","t","s">>,
      <<"E","x","e","c","u","t","i","v","e"," ","S","u","m","m","a","r","y",".",".",".",".",".",".",".","1","2">>,
      <<"1","."," ","S","c","o","p","e">>,
      <<"D","E","L","I","V","E","R","A","B","L","E","S">>,
      <<"S","e","c","t","i","o","n"," ","2",".","1",":"," ","P","a","y","m","e","n","t"," ","T","e","r","m","s">>,
      <<"N","e","t"," ","t","h","i","r","t","y"," ","d","a","y","s">>,
      <<"T","h","e"," ","s","u","p","p","l","i","e","r"," ","s","h","a","l","l"," ","d","e","l","i","v","e","r"," ","t","h","e"," ","s","e","r","v","i","c","e","s"," ","d","e","s","c","r","i","b","e","d"," ","i","n"," ","t","h","i","s"," ","s","t","a","t","e","m","e","n","t"," ","o","f"," ","w","o","r","k">> }

RECURSIVE ParagraphLists(_)
ParagraphLists(n) ==
    IF n = 0 THEN {<<>>}
    ELSE ParagraphLists(n - 1) \cup
         {Append(l, x) : l \in {m \in ParagraphLists(n - 1) : Len(m) = n - 1},
                         x \in ParagraphTexts}

SegInit ==
    /\ paragraphs \in ParagraphLists(MaxParagraphs)
    /\ sections = <<>>
    /\ segmented = FALSE

CallExtractSectionsFromHtml ==
    /\ ~segmented
    /\ sections' = extractSectionsFromHtml(paragraphs)
    /\ segmented' = TRUE
    /\ UNCHANGED <<paragraphs, alignVars, simVars, serviceVars>>

\* the plain-text parser segments the same lines
CallExtractSections ==
    /\ ~plainSegmented
    /\ plainSections' = extractSections(paragraphs)
    /\ plainSegmented' = TRUE
    /\ UNCHANGED <<alignVars, simVars, segVars, exceptPlainVars>>

InitSegment == SegInit /\ AlignIdle /\ SimIdle /\ ServiceIdle

NextSegment ==
    \/ CallExtractSectionsFromHtml
    \/ CallExtractSections

SpecSegment == InitSegment /\ [][NextSegment]_vars

----------------------------------------------------------------------------
\* the elements of a set of positions, in increasing order
InOrder(S) ==
    [k \in 1..Cardinality(S) |->
        CHOOSE i \in S : Cardinality({x \in S : x < i}) = k - 1]

\* the paragraphs a body was joined from: its lines, blank lines left out
bodyLines(body) ==
    LET starts == {i \in 1..Len(body) : body[i] # "\n" /\ (i = 1 \/ body[i - 1] = "\n")}
        lineEnd(i) == CHOOSE j \in i..Len(body) :
                          /\ \A k \in i..j : body[k] # "\n"
                          /\ (j = Len(body) \/ body[j + 1] = "\n")
    IN  [k \in 1..Cardinality(starts) |->
            SubSeq(body, InOrder(starts)[k], lineEnd(InOrder(starts)[k]))]

\* the bodies of the sections, in section order, as one list of paragraphs
RECURSIVE bodiesConcatenated(_)
bodiesConcatenated(secs) ==
    IF secs = <<>> THEN <<>>
    ELSE bodyLines(secs[1].body) \o bodiesConcatenated(Tail(secs))

\* paragraph i is the "Table of Contents" heading
TocHeadingAt(i) == isTocHeading(trim(paragraphs[i]))

\* paragraph i has the shape of a table-of-contents entry
TocShapedAt(i) == isTocEntry(trim(paragraphs[i]))

\* paragraph i has the form of a section header
HeaderShapedAt(i) == ~TocHeadingAt(i) /\ detectSectionHeader(paragraphs[i]).found

\* paragraph i ends the suppression mode: a header, or a line of over 60
\* characters that is not shaped like a table-of-contents entry
EndsSuppressionAt(i) ==
    /\ ~TocHeadingAt(i)
    /\ ~TocShapedAt(i)
    /\ (HeaderShapedAt(i) \/ Len(trim(paragraphs[i])) > TocExitLength)

\* the suppression mode is on when paragraph i is read
SuppressingAt(i) ==
    \E m \in 1..(i - 1) :
        TocHeadingAt(m) /\ \A k \in (m + 1)..(i - 1) : ~EndsSuppressionAt(k)

\* paragraph i is accepted as a section header
AcceptedAsHeader(i) == HeaderShapedAt(i)

\* some section is open when paragraph i is read
SectionOpenAt(i) ==
    \E k \in 1..(i - 1) : ~TocHeadingAt(k) /\ ~(SuppressingAt(k) /\ TocShapedAt(k))

\* paragraph i is left out by the table-of-contents handling: the heading
\* itself, an entry-shaped line read in suppression mode, or a line of at most
\* 60 characters read in suppression mode while a section is open
SuppressedAt(i) ==
    \/ TocHeadingAt(i)
    \/ SuppressingAt(i) /\ TocShapedAt(i)
    \/ SuppressingAt(i) /\ SectionOpenAt(i) /\ Len(trim(paragraphs[i])) <= TocExitLength

NonHeaderParagraphs ==
    {i \in 1..Len(paragraphs) : trim(paragraphs[i]) # <<>> /\ ~AcceptedAsHeader(i)}

textsAt(positions) ==
    [k \in 1..Cardinality(positions) |-> trim(paragraphs[InOrder(positions)[k]])]

\* C10: once extractSectionsFromHtml has run, the section bodies concatenated
\* in section order list every non-empty paragraph not accepted as a header,
\* each exactly once and in source order.
BodiesPartitionParagraphs ==
    segmented => bodiesConcatenated(sections) = textsAt(NonHeaderParagraphs)

\* C10, amended: once extractSectionsFromHtml has run, the section bodies
\* concatenated in section order list, each exactly once and in source order,
\* every non-empty paragraph that is neither accepted as a header nor left out
\* by the table-of-contents handling; no other text is in any body.
BodiesPartitionUnsuppressedParagraphs ==
    segmented =>
        bodiesConcatenated(sections) =
            textsAt({i \in NonHeaderParagraphs : ~SuppressedAt(i)})

\* a segmented document with a suppressed paragraph, a kept paragraph and
\* an accepted header
BodiesPartitionUnsuppressedParagraphsWitness ==
    /\ segmented
    /\ \E i \in NonHeaderParagraphs : SuppressedAt(i)
    /\ \E i \in NonHeaderParagraphs : ~SuppressedAt(i)
    /\ \E i \in 1..Len(paragraphs) : AcceptedAsHeader(i)
    /\ Len(sections) >= 2

(***************************************************************************)
(* richDocxParser: extractSections over the parsed paragraphs and tables   *)
(* of the document body, and parseRichDocx around it.  A paragraph is what *)
(* parseParagraph returns, as far as extractSections reads it: its text,   *)
(* isHeading, and whether style.outlineLevel is defined.                   *)
(***************************************************************************)
DigitChars == <<"0","1","2","3","4","5","6","7","8","9">>

\* String(n) for an integer n >= 0
RECURSIVE String(_)
String(n) ==
    IF n < 10 THEN <<DigitChars[n + 1]>>
    ELSE Append(String(n \div 10), DigitChars[(n % 10) + 1])

\* text.match(/^(\d+(?:\.\d+)*\.?)\s+(.+)/): the number token with its
\* optional final dot, the longest whitespace run that leaves a character of
\* the line, and the rest of that line
richSectionMatchAt(text, tokenEnd, titleStarts) ==
    IF tokenEnd >= 1 /\ titleStarts # {}
    THEN [found |-> TRUE, number |-> SubSeq(text, 1, tokenEnd),
          title |-> SubSeq(text, MaxOf(titleStarts),
                           MaxOf({e \in MaxOf(titleStarts)..Len(text) :
                                     \A k \in MaxOf(titleStarts)..e : text[k] # "\n"}))]
    ELSE noHeader

richTitleStarts(text, tokenEnd) ==
    {k \in (tokenEnd + 2)..Len(text) :
        /\ \A m \in (tokenEnd + 1)..(k - 1) : text[m] \in Whitespace
        /\ text[k] # "\n"}

richTokenEnd(text) ==
    IF numberTokenEnd(text, 1) >= 1
       /\ numberTokenEnd(text, 1) < Len(text)
       /\ text[numberTokenEnd(text, 1) + 1] = "."
    THEN numberTokenEnd(text, 1) + 1
    ELSE numberTokenEnd(text, 1)

richSectionMatch(text) ==
    richSectionMatchAt(text, richTokenEnd(text), richTitleStarts(text, richTokenEnd(text)))

\* sectionMatch || (isHeading && text.trim().length > 0)
richIsHeader(paragraph) ==
    \/ richSectionMatch(paragraph.text).found
    \/ /\ (paragraph.isHeading \/ paragraph.outlineLevelDefined)
       /\ Len(trim(paragraph.text)) > 0

\* the section a header paragraph starts; sectionNumber is already incremented
richHeaderSection(paragraph, sectionMatch, sectionNumber, index) ==
    [id |-> SectionId(index),
     number |-> IF sectionMatch.found THEN sectionMatch.number ELSE String(sectionNumber),
     title |-> IF sectionMatch.found THEN sectionMatch.title ELSE paragraph.text,
     paragraphs |-> <<paragraph>>, tables |-> <<>>]

\* "Content before first section"
richIntroductionSection(paragraph, index) ==
    [id |-> SectionId(index), number |-> <<"0">>, title |-> <<"I","n","t","r","o","d","u","c","t","i","o","n">>,
     paragraphs |-> <<paragraph>>, tables |-> <<>>]

richCloseSection(state) ==
    IF state.open THEN Append(state.sections, state.current) ELSE state.sections

\* one iteration of the loop over the paragraphs
richStep(state, paragraph, index) ==
    IF richIsHeader(paragraph)
    THEN [sections |-> richCloseSection(state), open |-> TRUE,
          current |-> richHeaderSection(paragraph, richSectionMatch(paragraph.text),
                                        state.sectionNumber + 1, index),
          sectionNumber |-> state.sectionNumber + 1]
    ELSE IF state.open
         THEN [state EXCEPT !.current.paragraphs = Append(@, paragraph)]
    ELSE [state EXCEPT !.open = TRUE,
                       !.current = richIntroductionSection(paragraph, index)]

RECURSIVE richLoop(_, _, _)
richLoop(state, paras, i) ==
    IF i > Len(paras) THEN state
    ELSE richLoop(richStep(state, paras[i], i), paras, i + 1)

\* the tables of the body all go to the section that is open after the loop
richAddTables(state, tables) ==
    IF state.open THEN [state EXCEPT !.current.tables = @ \o tables] ELSE state

richExtractSections(body) ==
    richCloseSection(
        richAddTables(richLoop([sections |-> <<>>, open |-> FALSE, current |-> <<>>,
                                sectionNumber |-> 0], body.paragraphs, 1),
                      body.tables))

\* the styles map of word/styles.xml (no such part: the empty map)
parseStyles(styles) == IF styles = "absent" THEN {} ELSE {<<"H","e","a","d","i","n","g","1">>}

\* the metadata read from docProps/core.xml inside the try block
richMetadata(core) ==
    IF core = "full"
    THEN [field \in {"title", "author", "created"} |-> <<"core", field>>]
    ELSE <<>>

\* whether parseRichDocx throws: JSZip.loadAsync rejects, document.xml is
\* missing or does not parse, or styles.xml is there and does not parse
parseRichDocxThrows(file) ==
    \/ ~file.opens
    \/ file.document \in {"absent", "malformed"}
    \/ file.styles = "malformed"

parseRichDocx(file) ==
    [sections |-> richExtractSections(file.body),
     styles |-> parseStyles(file.styles),
     metadata |-> richMetadata(file.core)]

MaxRichParagraphs == 2
MaxRichTables == 1

RichParagraphs ==
    { [text |-> <<"1","."," ","S","c","o","p","e">>, isHeading |-> FALSE, outlineLevelDefined |-> FALSE],
      [text |-> <<"2",".","1"," ","F","e","e","s">>, isHeading |-> FALSE, outlineLevelDefined |-> FALSE],
      [text |-> <<"O","v","e","r","v","i","e","w">>, isHeading |-> TRUE, outlineLevelDefined |-> FALSE],
      [text |-> <<"N","e","t"," ","t","h","i","r","t","y"," ","d","a","y","s">>, isHeading |-> FALSE, outlineLevelDefined |-> FALSE],
      [text |-> <<"N","e","t"," ","t","h","i","r","t","y"," ","d","a","y","s">>, isHeading |-> FALSE, outlineLevelDefined |-> TRUE],
      [text |-> <<" ">>, isHeading |-> TRUE, outlineLevelDefined |-> FALSE] }

RichBodies ==
    [paragraphs : UNION {[1..n -> RichParagraphs] : n \in 0..MaxRichParagraphs},
     tables : {[k \in 1..n |-> <<"table", k>>] : n \in 0..MaxRichTables}]

RichFiles ==
    [opens : BOOLEAN,
     document : {"absent", "malformed", "wellformed"},
     styles : {"absent", "malformed", "wellformed"},
     core : {"absent", "malformed", "empty", "full"},
     body : RichBodies]

RichInit ==
    /\ richFile \in RichFiles
    /\ richOutcome = "none"
    /\ richResult = <<>>

CallParseRichDocx ==
    /\ richOutcome = "none"
    /\ IF parseRichDocxThrows(richFile)
       THEN richOutcome' = "threw" /\ richResult' = <<>>
       ELSE richOutcome' = "returned" /\ richResult' = parseRichDocx(richFile)
    /\ UNCHANGED <<richFile, alignVars, simVars, segVars, exceptRichVars>>

InitRich == RichInit /\ AlignIdle /\ SimIdle /\ SegIdle /\ ExceptRichIdle

SpecRich == InitRich /\ [][CallParseRichDocx]_vars

----------------------------------------------------------------------------
IntroductionTitle == <<"I","n","t","r","o","d","u","c","t","i","o","n">>

\* line i (from 1) is accepted as a header by the plain-text parser
PlainAcceptedAsHeader(i) ==
    /\ Len(trim(paragraphs[i])) < PlainHeaderMaxLength
    /\ parseParagraphAsSection(trim(paragraphs[i]), i - 1).found

\* extractSectionsFromHtml: the first paragraph, when it is not an accepted
\* header, opens the implicit section and is the first element of its body;
\* otherwise there are as many sections as accepted headers
HtmlIntroductionOpened ==
    (segmented /\ paragraphs # <<>>) =>
        IF AcceptedAsHeader(1)
        THEN Len(sections) = Cardinality({i \in 1..Len(paragraphs) : AcceptedAsHeader(i)})
        ELSE /\ Len(sections) >= 1
             /\ sections[1].title = IntroductionTitle
             /\ sections[1].number = NULL
             /\ sections[1].level = 1
             /\ bodyLines(sections[1].body) # <<>>
             /\ bodyLines(sections[1].body)[1] = trim(paragraphs[1])

\* the same for the plain-text extractSections
PlainIntroductionOpened ==
    (plainSegmented /\ paragraphs # <<>>) =>
        IF PlainAcceptedAsHeader(1)
        THEN Len(plainSections) =
                 Cardinality({i \in 1..Len(paragraphs) : PlainAcceptedAsHeader(i)})
        ELSE /\ Len(plainSections) >= 1
             /\ plainSections[1].title = IntroductionTitle
             /\ plainSections[1].number = NULL
             /\ plainSections[1].level = 1
             /\ bodyLines(plainSections[1].body) # <<>>
             /\ bodyLines(plainSections[1].body)[1] = trim(paragraphs[1])

\* the same for the rich extractSections, whose sections carry no level
RichIntroductionOpened ==
    (richOutcome = "returned" /\ richFile.body.paragraphs # <<>>) =>
        IF richIsHeader(richFile.body.paragraphs[1])
        THEN Len(richResult.sections) =
                 Cardinality({i \in 1..Len(richFile.body.paragraphs) :
                                 richIsHeader(richFile.body.paragraphs[i])})
        ELSE /\ Len(richResult.sections) >= 1
             /\ richResult.sections[1].title = IntroductionTitle
             /\ richResult.sections[1].number = NULL
             /\ richResult.sections[1].paragraphs[1] = richFile.body.paragraphs[1]

\* C11: in each of the three segmenters a non-header paragraph that arrives
\* while no section is open opens an implicit section titled "Introduction"
\* with number null (and level 1) whose body starts with that paragraph, and
\* no implicit section is created when the first paragraph is an accepted header.
ImplicitIntroductionOpened ==
    /\ HtmlIntroductionOpened
    /\ PlainIntroductionOpened
    /\ RichIntroductionOpened

----------------------------------------------------------------------------
\* a list without its element at position i
without(list, i) == SubSeq(list, 1, i - 1) \o SubSeq(list, i + 1, Len(list))

\* C12: a paragraph shaped like a table-of-contents entry that is read in
\* suppression mode leaves no trace in the output of extractSectionsFromHtml:
\* the sections are those of the document without that paragraph, so it opens
\* and closes no section and is in no body and no title.
TocEntrySuppressed ==
    segmented =>
        \A i \in 1..Len(paragraphs) :
            (SuppressingAt(i) /\ TocShapedAt(i)) =>
                sections = extractSectionsFromHtml(without(paragraphs, i))

\* an entry-shaped paragraph was read in suppression mode, in a document
\* that has sections
TocEntrySuppressedWitness ==
    /\ segmented
    /\ Len(sections) >= 1
    /\ \E i \in 1..Len(paragraphs) : SuppressingAt(i) /\ TocShapedAt(i)

(***************************************************************************)
(* calculateSectionLevel on its own, in both parsers, over numbering       *)
(* tokens and strings near them.                                           *)
(***************************************************************************)
MaxTokenLength == 3

TokenChars == {"1", ".", "I", "v", "a", "(", ")"}

\* null, and every string over TokenChars of at most MaxTokenLength characters
NumberTokens == UNION {[1..n -> TokenChars] : n \in 0..MaxTokenLength}

LevelInit ==
    /\ levelToken \in NumberTokens
    /\ levels = <<>>

CallCalculateSectionLevel ==
    /\ levels = <<>>
    /\ levels' = [html |-> calculateSectionLevel(levelToken),
                  plain |-> calculateSectionLevelPlain(levelToken)]
    /\ UNCHANGED <<levelToken, alignVars, simVars, segVars, exceptLevelVars>>

InitLevel == LevelInit /\ AlignIdle /\ SimIdle /\ SegIdle /\ ExceptLevelIdle

SpecLevel == InitLevel /\ [][CallCalculateSectionLevel]_vars

\* the number of "." characters in a token
DotsIn(token) == Cardinality({i \in 1..Len(token) : token[i] = "."})

\* a bare roman numeral: one or more of the letters IVXLCDM, in either case
BareRoman(token) ==
    /\ token # <<>>
    /\ \A i \in 1..Len(token) :
           token[i] \in RomanChars \cup {toLowerChar(c) : c \in RomanChars}

\* the level the statement gives a token, 0 where it gives none
LevelAsSpecified(token) ==
    IF token = NULL THEN 1
    ELSE IF DotsIn(token) >= 1 THEN DotsIn(token) + 1
    ELSE IF BareRoman(token) THEN 1
    ELSE 0

\* C13: in both parsers calculateSectionLevel returns n + 1 for a token with
\* exactly n >= 1 dots, 1 for a bare roman numeral and 1 for null.
LevelFromDots ==
    (levels # <<>> /\ LevelAsSpecified(levelToken) # 0) =>
        /\ levels.html = LevelAsSpecified(levelToken)
        /\ levels.plain = LevelAsSpecified(levelToken)

\* both were called on a token with two dots, and on a single roman letter
LevelFromDotsWitness ==
    /\ levels # <<>>
    /\ DotsIn(levelToken) = 2 \/ (Len(levelToken) = 1 /\ BareRoman(levelToken))

(***************************************************************************)
(* compareSectionFormatting (src/src/services/docxParser.ts).  An optional *)
(* attribute holds a tagged value: <<"undefined">>, <<"string", s>>,       *)
(* <<"number", n>> or <<"boolean", b>>.                                    *)
(***************************************************************************)
Undefined == <<"undefined">>
Str(s) == <<"string", s>>
Num(n) == <<"number", n>>
Bool(b) == <<"boolean", b>>

\* the truthiness of a value
truthy(v) ==
    CASE v[1] = "undefined" -> FALSE
      [] v[1] = "string" -> v[2] # <<>>
      [] v[1] = "number" -> v[2] # 0
      [] v[1] = "boolean" -> v[2]

\* the string a template literal or a string context makes of a value
toStringOf(v) ==
    CASE v[1] = "undefined" -> <<"u","n","d","e","f","i","n","e","d">>
      [] v[1] = "string" -> v[2]
      [] v[1] = "number" -> String(v[2])
      [] v[1] = "boolean" -> IF v[2] THEN <<"t","r","u","e">> ELSE <<"f","a","l","s","e">>

\* `${v || fallback}` and v || "fallback", as a string
orElse(v, fallback) == IF truthy(v) THEN toStringOf(v) ELSE fallback

SnippetLength == 50

FormattingDifference(type, description, templateValue, draftValue, severity, location, fix) ==
    [id |-> NULL, type |-> type, description |-> description,
     templateValue |-> templateValue, draftValue |-> draftValue,
     severity |-> severity, location |-> location, fix |-> fix]

\* a variant of paragraphLocation that counts paragraphs from one
paragraphLocationOneBased(draftSection, i, text) ==
    [sectionId |-> draftSection.id, paragraphIndex |-> i + 1,
     textSnippet |-> substring(text, SnippetLength)]

paragraphLocation(draftSection, i, text) ==
    [sectionId |-> draftSection.id, paragraphIndex |-> i,
     textSnippet |-> substring(text, SnippetLength)]

\* "Compare paragraph alignment"
alignmentDifference(tPara, dPara, draftSection, i) ==
    IF tPara.formatting.alignment # dPara.formatting.alignment
    THEN <<FormattingDifference("alignment",
             <<"P","a","r","a","g","r","a","p","h"," ","a","l","i","g","n","m","e","n","t"," ","d","i","f","f","e","r","s",":"," ","\"">> \o orElse(tPara.formatting.alignment, <<"l","e","f","t">>)
                 \o <<"\""," ","i","n"," ","t","e","m","p","l","a","t","e"," ","v","s"," ","\"">> \o orElse(dPara.formatting.alignment, <<"l","e","f","t">>) \o <<"\""," ","i","n"," ","d","r","a","f","t">>,
             orElse(tPara.formatting.alignment, <<"l","e","f","t">>),
             orElse(dPara.formatting.alignment, <<"l","e","f","t">>),
             "medium", paragraphLocation(draftSection, i, dPara.text),
             [type |-> "apply_template_formatting",
              templateFormatting |-> [alignment |-> tPara.formatting.alignment]])>>
    ELSE <<>>

\* the fix of a style and of a heading difference
styleFix(tPara) ==
    [type |-> "apply_template_style", templateFormatting |-> tPara.formatting]

\* "Compare paragraph style"
styleDifference(tPara, dPara, draftSection, i) ==
    IF tPara.formatting.styleId # dPara.formatting.styleId /\ truthy(tPara.formatting.styleId)
    THEN <<FormattingDifference("style",
             <<"P","a","r","a","g","r","a","p","h"," ","s","t","y","l","e"," ","d","i","f","f","e","r","s",":"," ","\"">>
                 \o orElse(tPara.formatting.styleName, toStringOf(tPara.formatting.styleId))
                 \o <<"\""," ","i","n"," ","t","e","m","p","l","a","t","e"," ","v","s"," ","\"">>
                 \o orElse(dPara.formatting.styleName,
                           orElse(dPara.formatting.styleId, <<"N","o","r","m","a","l">>))
                 \o <<"\""," ","i","n"," ","d","r","a","f","t">>,
             orElse(tPara.formatting.styleName,
                    orElse(tPara.formatting.styleId, <<"N","o","r","m","a","l">>)),
             orElse(dPara.formatting.styleName,
                    orElse(dPara.formatting.styleId, <<"N","o","r","m","a","l">>)),
             "high", paragraphLocation(draftSection, i, dPara.text),
             styleFix(tPara))>>
    ELSE <<>>

\* a variant of spacingDifference without the test of the template's value
spacingDifferenceUnguarded(tPara, dPara, draftSection, i) ==
    IF tPara.formatting.spacingAfter # dPara.formatting.spacingAfter
    THEN <<FormattingDifference("spacing", <<"P","a","r","a","g","r","a","p","h"," ","s","p","a","c","i","n","g"," ","a","f","t","e","r"," ","d","i","f","f","e","r","s">>,
             toStringOf(tPara.formatting.spacingAfter),
             orElse(dPara.formatting.spacingAfter, <<"0">>),
             "low", paragraphLocation(draftSection, i, dPara.text),
             [type |-> "apply_template_formatting",
              templateFormatting |-> [spacingAfter |-> tPara.formatting.spacingAfter]])>>
    ELSE <<>>

\* "Compare spacing"
spacingDifference(tPara, dPara, draftSection, i) ==
    IF tPara.formatting.spacingAfter # dPara.formatting.spacingAfter
       /\ truthy(tPara.formatting.spacingAfter)
    THEN <<FormattingDifference("spacing", <<"P","a","r","a","g","r","a","p","h"," ","s","p","a","c","i","n","g"," ","a","f","t","e","r"," ","d","i","f","f","e","r","s">>,
             toStringOf(tPara.formatting.spacingAfter),
             orElse(dPara.formatting.spacingAfter, <<"0">>),
             "low", paragraphLocation(draftSection, i, dPara.text),
             [type |-> "apply_template_formatting",
              templateFormatting |-> [spacingAfter |-> tPara.formatting.spacingAfter]])>>
    ELSE <<>>

\* "Compare indent"
indentDifference(tPara, dPara, draftSection, i) ==
    IF tPara.formatting.indentLeft # dPara.formatting.indentLeft
       /\ truthy(tPara.formatting.indentLeft)
    THEN <<FormattingDifference("indent", <<"L","e","f","t"," ","i","n","d","e","n","t","a","t","i","o","n"," ","d","i","f","f","e","r","s">>,
             toStringOf(tPara.formatting.indentLeft),
             orElse(dPara.formatting.indentLeft, <<"0">>),
             "low", paragraphLocation(draftSection, i, dPara.text),
             [type |-> "apply_template_formatting",
              templateFormatting |-> [indentLeft |-> tPara.formatting.indentLeft]])>>
    ELSE <<>>

\* "Compare heading levels"
headingDifference(tPara, dPara, draftSection, i) ==
    IF (tPara.isHeading # dPara.isHeading \/ tPara.headingLevel # dPara.headingLevel)
       /\ truthy(tPara.isHeading)
    THEN <<FormattingDifference("heading",
             <<"H","e","a","d","i","n","g"," ","l","e","v","e","l"," ","d","i","f","f","e","r","s",":"," ","L","e","v","e","l"," ">> \o toStringOf(tPara.headingLevel) \o <<" ","i","n"," ","t","e","m","p","l","a","t","e"," ","v","s"," ">>
                 \o (IF truthy(dPara.isHeading)
                     THEN <<"L","e","v","e","l"," ">> \o toStringOf(dPara.headingLevel)
                     ELSE <<"n","o","t"," ","a"," ","h","e","a","d","i","n","g">>)
                 \o <<" ","i","n"," ","d","r","a","f","t">>,
             <<"H","e","a","d","i","n","g"," ">> \o toStringOf(tPara.headingLevel),
             IF truthy(dPara.isHeading)
             THEN <<"H","e","a","d","i","n","g"," ">> \o toStringOf(dPara.headingLevel)
             ELSE <<"N","o","r","m","a","l">>,
             "high", paragraphLocation(draftSection, i, dPara.text),
             styleFix(tPara))>>
    ELSE <<>>

RunSnippetLength == 30

runLocation(draftSection, i, dRun) ==
    [sectionId |-> draftSection.id, paragraphIndex |-> i,
     textSnippet |-> substring(dRun.text, SnippetLength)]

\* "Bold"
boldDifference(tRun, dRun, draftSection, i) ==
    IF tRun.formatting.bold # dRun.formatting.bold
    THEN <<FormattingDifference("font",
             <<"B","o","l","d"," ","f","o","r","m","a","t","t","i","n","g"," ","d","i","f","f","e","r","s"," ","f","o","r"," ","\"">> \o substring(dRun.text, RunSnippetLength) \o <<".",".",".","\"">>,
             IF truthy(tRun.formatting.bold) THEN <<"B","o","l","d">> ELSE <<"N","o","r","m","a","l">>,
             IF truthy(dRun.formatting.bold) THEN <<"B","o","l","d">> ELSE <<"N","o","r","m","a","l">>,
             "medium", runLocation(draftSection, i, dRun),
             [type |-> "apply_template_font",
              templateFormatting |-> [bold |-> tRun.formatting.bold]])>>
    ELSE <<>>

\* "Italic"
italicDifference(tRun, dRun, draftSection, i) ==
    IF tRun.formatting.italic # dRun.formatting.italic
    THEN <<FormattingDifference("font",
             <<"I","t","a","l","i","c"," ","f","o","r","m","a","t","t","i","n","g"," ","d","i","f","f","e","r","s"," ","f","o","r"," ","\"">> \o substring(dRun.text, RunSnippetLength) \o <<".",".",".","\"">>,
             IF truthy(tRun.formatting.italic) THEN <<"I","t","a","l","i","c">> ELSE <<"N","o","r","m","a","l">>,
             IF truthy(dRun.formatting.italic) THEN <<"I","t","a","l","i","c">> ELSE <<"N","o","r","m","a","l">>,
             "medium", runLocation(draftSection, i, dRun),
             [type |-> "apply_template_font",
              templateFormatting |-> [italic |-> tRun.formatting.italic]])>>
    ELSE <<>>

\* "Font size"
fontSizeDifference(tRun, dRun, draftSection, i) ==
    IF tRun.formatting.fontSize # dRun.formatting.fontSize /\ truthy(tRun.formatting.fontSize)
    THEN <<FormattingDifference("font",
             <<"F","o","n","t"," ","s","i","z","e"," ","d","i","f","f","e","r","s",":"," ">> \o toStringOf(tRun.formatting.fontSize) \o <<"p","t"," ","i","n"," ","t","e","m","p","l","a","t","e"," ","v","s"," ">>
                 \o orElse(dRun.formatting.fontSize, <<"d","e","f","a","u","l","t">>) \o <<"p","t"," ","i","n"," ","d","r","a","f","t">>,
             toStringOf(tRun.formatting.fontSize) \o <<"p","t">>,
             orElse(dRun.formatting.fontSize, <<"d","e","f","a","u","l","t">>) \o <<"p","t">>,
             "high", runLocation(draftSection, i, dRun),
             [type |-> "apply_template_font",
              templateFormatting |-> [fontSize |-> tRun.formatting.fontSize]])>>
    ELSE <<>>

\* "Font family"
fontFamilyDifference(tRun, dRun, draftSection, i) ==
    IF tRun.formatting.fontFamily # dRun.formatting.fontFamily
       /\ truthy(tRun.formatting.fontFamily)
    THEN <<FormattingDifference("font",
             <<"F","o","n","t"," ","f","a","m","i","l","y"," ","d","i","f","f","e","r","s",":"," ","\"">> \o toStringOf(tRun.formatting.fontFamily) \o <<"\""," ","i","n"," ","t","e","m","p","l","a","t","e"," ","v","s"," ","\"">>
                 \o orElse(dRun.formatting.fontFamily, <<"d","e","f","a","u","l","t">>) \o <<"\""," ","i","n"," ","d","r","a","f","t">>,
             toStringOf(tRun.formatting.fontFamily),
             orElse(dRun.formatting.fontFamily, <<"d","e","f","a","u","l","t">>),
             "high", runLocation(draftSection, i, dRun),
             [type |-> "apply_template_font",
              templateFormatting |-> [fontFamily |-> tRun.formatting.fontFamily]])>>
    ELSE <<>>

\* the differences of one pair of text runs, in the order they are pushed
runDifferences(tRun, dRun, draftSection, i) ==
    boldDifference(tRun, dRun, draftSection, i)
        \o italicDifference(tRun, dRun, draftSection, i)
        \o fontSizeDifference(tRun, dRun, draftSection, i)
        \o fontFamilyDifference(tRun, dRun, draftSection, i)

RECURSIVE runLoop(_, _, _, _, _)
\* for (let j = 0; j < minRuns; j++), from the 1-based run j on
runLoop(tPara, dPara, draftSection, i, j) ==
    IF j > Min(Len(tPara.runs), Len(dPara.runs)) THEN <<>>
    ELSE runDifferences(tPara.runs[j], dPara.runs[j], draftSection, i)
             \o runLoop(tPara, dPara, draftSection, i, j + 1)

\* the differences of one pair of paragraphs, in the order they are pushed
paragraphDifferences(tPara, dPara, draftSection, i) ==
    alignmentDifference(tPara, dPara, draftSection, i)
        \o styleDifference(tPara, dPara, draftSection, i)
        \o spacingDifference(tPara, dPara, draftSection, i)
        \o indentDifference(tPara, dPara, draftSection, i)
        \o headingDifference(tPara, dPara, draftSection, i)
        \o runLoop(tPara, dPara, draftSection, i, 1)

RECURSIVE paragraphLoop(_, _, _)
\* for (let i = 0; i < Math.min(...); i++), from the 0-based paragraph i on
paragraphLoop(templateSection, draftSection, i) ==
    IF i >= Min(Len(templateSection.paragraphs), Len(draftSection.paragraphs)) THEN <<>>
    ELSE paragraphDifferences(templateSection.paragraphs[i + 1],
                              draftSection.paragraphs[i + 1], draftSection, i)
             \o paragraphLoop(templateSection, draftSection, i + 1)

tableCountString(n) == String(n) \o <<" ","t","a","b","l","e","s">>

\* a variant of tableDifference that reports nothing
tableDifferenceNone(templateSection, draftSection) == <<>>

\* "Check for table differences"
tableDifference(templateSection, draftSection) ==
    IF templateSection.tablesDefined /\ draftSection.tablesDefined
       /\ Len(templateSection.tables) # Len(draftSection.tables)
    THEN <<FormattingDifference("table",
             <<"T","a","b","l","e"," ","c","o","u","n","t"," ","d","i","f","f","e","r","s",":"," ">> \o String(Len(templateSection.tables)) \o <<" ","i","n"," ","t","e","m","p","l","a","t","e"," ","v","s"," ">>
                 \o String(Len(draftSection.tables)) \o <<" ","i","n"," ","d","r","a","f","t">>,
             tableCountString(Len(templateSection.tables)),
             tableCountString(Len(draftSection.tables)),
             "high", [sectionId |-> draftSection.id], NULL)>>
    ELSE <<>>

\* id: uuidv4(), a fresh identifier for each difference pushed
withIds(differences) ==
    [k \in 1..Len(differences) |-> [differences[k] EXCEPT !.id = <<"difference", k>>]]

compareSectionFormatting(templateSection, draftSection) ==
    IF templateSection = NULL THEN <<>>
    ELSE IF ~templateSection.paragraphsDefined \/ ~draftSection.paragraphsDefined THEN <<>>
    ELSE withIds(paragraphLoop(templateSection, draftSection, 0)
                     \o tableDifference(templateSection, draftSection))

(***************************************************************************)
(* compareSectionFormatting on its own: a matched template section (or     *)
(* null) and a draft section as analyzeFormatting builds them, with the    *)
(* paragraphs and tables arrays always present.                            *)
(***************************************************************************)
MaxFormatParagraphs == 2
MaxFormatTables == 2

ParagraphFormatting(alignment, styleId, styleName, spacingAfter, indentLeft) ==
    [alignment |-> alignment, indentLeft |-> indentLeft, indentRight |-> Undefined,
     indentFirstLine |-> Undefined, spacingBefore |-> Undefined,
     spacingAfter |-> spacingAfter, lineSpacing |-> Undefined,
     styleId |-> styleId, styleName |-> styleName, outlineLevel |-> Undefined]

TextRun(text, bold, italic, fontSize, fontFamily) ==
    [text |-> text,
     formatting |-> [bold |-> bold, italic |-> italic, underline |-> Undefined,
                     strike |-> Undefined, fontSize |-> fontSize,
                     fontFamily |-> fontFamily, color |-> Undefined,
                     highlight |-> Undefined]]

BodyParagraph ==
    [text |-> <<"T","h","e"," ","c","o","n","t","r","a","c","t","o","r"," ","s","h","a","l","l"," ","d","e","l","i","v","e","r"," ","a","l","l"," ","w","o","r","k"," ","p","r","o","d","u","c","t","s"," ","w","i","t","h","i","n"," ","t","h","i","r","t","y"," ","d","a","y","s",".">>,
     formatting |-> ParagraphFormatting(Undefined, Undefined, Undefined, Undefined, Undefined),
     runs |-> <<TextRun(<<"T","h","e"," ","c","o","n","t","r","a","c","t","o","r"," ","s","h","a","l","l"," ","d","e","l","i","v","e","r"," ","a","l","l"," ","w","o","r","k"," ","p","r","o","d","u","c","t","s"," ","w","i","t","h","i","n"," ","t","h","i","r","t","y"," ","d","a","y","s",".">>, Undefined, Undefined, Undefined, Undefined)>>,
     isHeading |-> Bool(FALSE), headingLevel |-> Undefined]

HeadingParagraph ==
    [text |-> <<"S","c","o","p","e"," ","o","f"," ","W","o","r","k">>,
     formatting |-> ParagraphFormatting(Str(<<"c","e","n","t","e","r">>), Str(<<"H","e","a","d","i","n","g","1">>), Str(<<"H","e","a","d","i","n","g"," ","1">>),
                                        Num(240), Num(720)),
     runs |-> <<TextRun(<<"S","c","o","p","e"," ">>, Bool(TRUE), Undefined, Num(14), Str(<<"A","r","i","a","l">>)),
                TextRun(<<"o","f"," ","W","o","r","k">>, Undefined, Bool(TRUE), Num(14), Str(<<"A","r","i","a","l">>))>>,
     isHeading |-> Bool(TRUE), headingLevel |-> Num(1)]

SubheadingParagraph ==
    [text |-> <<"P","a","y","m","e","n","t"," ","T","e","r","m","s">>,
     formatting |-> ParagraphFormatting(Str(<<"l","e","f","t">>), Str(<<"H","e","a","d","i","n","g","2">>), Undefined,
                                        Num(0), Undefined),
     runs |-> <<TextRun(<<"P","a","y","m","e","n","t"," ","T","e","r","m","s">>, Bool(TRUE), Bool(FALSE), Num(12), Str(<<"C","a","l","i","b","r","i">>))>>,
     isHeading |-> Bool(TRUE), headingLevel |-> Num(2)]

FormatParagraphs == {BodyParagraph, HeadingParagraph, SubheadingParagraph}

CellTexts == {<<"M","i","l","e","s","t","o","n","e">>, <<"A","m","o","u","n","t">>}

\* a table of one row and one cell holding one paragraph
FormatTable(text) ==
    [rows |-> <<[cells |-> <<[content |-> <<[BodyParagraph EXCEPT !.text = text]>>]>>]>>,
     columns |-> 1]

FormatTables == {FormatTable(text) : text \in CellTexts}

FormatSection(id, paragraphList, tableList) ==
    [id |-> id, paragraphsDefined |-> TRUE, paragraphs |-> paragraphList,
     tablesDefined |-> TRUE, tables |-> tableList]

FormatSections(id) ==
    {FormatSection(id, paragraphList, tableList) :
        paragraphList \in UNION {[1..n -> FormatParagraphs] : n \in 0..MaxFormatParagraphs},
        tableList \in UNION {[1..n -> FormatTables] : n \in 0..MaxFormatTables}}

FormatInit ==
    /\ formatTemplate \in FormatSections(SectionId(1)) \cup {NULL}
    /\ formatDraft \in FormatSections(SectionId(2))
    /\ formatDifferences = <<>>
    /\ formatRan = FALSE

CallCompareSectionFormatting ==
    /\ ~formatRan
    /\ formatDifferences' = compareSectionFormatting(formatTemplate, formatDraft)
    /\ formatRan' = TRUE
    /\ UNCHANGED <<formatTemplate, formatDraft, alignVars, simVars, segVars, exceptFormatVars>>

InitFormat == FormatInit /\ AlignIdle /\ SimIdle /\ SegIdle /\ ExceptFormatIdle

SpecFormat == InitFormat /\ [][CallCompareSectionFormatting]_vars

\* the attributes a difference of each type compares
ComparedAttributes(type) ==
    CASE type = "alignment" -> {"alignment"}
      [] type = "style" -> {"styleId"}
      [] type = "spacing" -> {"spacingAfter"}
      [] type = "indent" -> {"indentLeft"}
      [] type = "heading" -> {"headingLevel"}
      [] type = "font" -> {"bold", "italic", "fontSize", "fontFamily"}
      [] OTHER -> {}

\* the template-side values of an attribute in the paragraph a difference is about
TemplateSideValues(d, attribute) ==
    LET tPara == formatTemplate.paragraphs[d.location.paragraphIndex + 1]
    IN  IF d.type = "font"
        THEN {tPara.runs[j].formatting[attribute] : j \in 1..Len(tPara.runs)}
        ELSE IF d.type = "heading" THEN {tPara.headingLevel}
        ELSE {tPara.formatting[attribute]}

\* the fix of a difference holds one attribute, the compared one, with the template's value
FixIsComparedValue(d) ==
    /\ Cardinality(DOMAIN d.fix.templateFormatting) = 1
    /\ \A attribute \in DOMAIN d.fix.templateFormatting :
           /\ attribute \in ComparedAttributes(d.type)
           /\ d.fix.templateFormatting[attribute] \in TemplateSideValues(d, attribute)

\* C14: every difference of compareSectionFormatting that carries a fix has as
\* its fix payload the template-side value of exactly the compared attribute,
\* and nothing else.
FixIsTemplateValueOnly ==
    \A k \in 1..Len(formatDifferences) :
        formatDifferences[k].fix # NULL => FixIsComparedValue(formatDifferences[k])

\* a section whose tables hold no cells
withoutCells(section) ==
    [section EXCEPT !.tables = [k \in 1..Len(section.tables) |-> [rows |-> <<>>, columns |-> 0]]]

TableDifferences == SelectSeq(formatDifferences, LAMBDA d : d.type = "table")

\* C15: compareSectionFormatting emits exactly one "table" difference, of high
\* severity and without a fix, when the two sections' table counts differ, none
\* when they are equal, and the cells of the tables do not change its result.
TableCountCompared ==
    (formatRan /\ formatTemplate # NULL) =>
        /\ IF Len(formatTemplate.tables) # Len(formatDraft.tables)
           THEN /\ Len(TableDifferences) = 1
                /\ TableDifferences[1].severity = "high"
                /\ TableDifferences[1].fix = NULL
           ELSE TableDifferences = <<>>
        /\ formatDifferences =
               compareSectionFormatting(withoutCells(formatTemplate), withoutCells(formatDraft))

\* compared: two tables against one, and cells that differ
TableCountComparedWitness ==
    /\ formatRan /\ formatTemplate # NULL
    /\ Len(formatTemplate.tables) = 2 /\ Len(formatDraft.tables) = 1
    /\ formatTemplate.tables[1] # formatDraft.tables[1]
    /\ Len(TableDifferences) = 1

(***************************************************************************)
(* analyzeSectionPair, analyzeGlobal and analyzeSOWs                       *)
(* (src/src/services/openaiAnalyzer.ts).  What the Azure OpenAI service    *)
(* does with a request is the environment's choice: an outcome is the      *)
(* client not being configured, an error thrown by the call, or a response *)
(* with some content.                                                      *)
(***************************************************************************)
NotConfiguredMessage == <<"A","z","u","r","e"," ","O","p","e","n","A","I"," ","e","n","v","i","r","o","n","m","e","n","t"," ","v","a","r","i","a","b","l","e","s"," ","a","r","e"," ","n","o","t"," ","c","o","n","f","i","g","u","r","e","d"," ","(","A","Z","U","R","E","_","O","P","E","N","A","I","_","E","N","D","P","O","I","N","T",","," ","A","Z","U","R","E","_","O","P","E","N","A","I","_","A","P","I","_","K","E","Y",")">>
NoContentMessage == <<"N","o"," ","r","e","s","p","o","n","s","e"," ","c","o","n","t","e","n","t"," ","f","r","o","m"," ","A","z","u","r","e"," ","O","p","e","n","A","I">>

NotJsonText == <<"n","o","t"," ","j","s","o","n">>
NullText == <<"n","u","l","l">>
EmptyObjectText == <<"{","}">>
BadIssueText == <<"{","\"","s","e","v","e","r","i","t","y","_","o","v","e","r","a","l","l","\"",":","\"","u","r","g","e","n","t","\"",",","\"","i","s","s","u","e","s","\"",":","[","{","}","]",",","\"","n","o","t","e","s","_","f","o","r","_","l","e","g","a","l","_","r","e","v","i","e","w","\"",":","[","\"","c","h","e","c","k","\"","]","}">>
ValidSectionText == <<"{","\"","s","e","c","t","i","o","n","_","i","d","\"",":","\"","s","\"",",","\"","s","e","v","e","r","i","t","y","_","o","v","e","r","a","l","l","\"",":","\"","h","i","g","h","\"",",","\"","i","s","s","u","e","s","\"",":","[","{","\"","t","y","p","e","\"",":","\"","v","a","g","u","e","_","l","a","n","g","u","a","g","e","\"",",","\"","s","e","v","e","r","i","t","y","\"",":","\"","m","e","d","i","u","m","\"",",","\"","d","e","s","c","r","i","p","t","i","o","n","\"",":","\"","u","n","c","l","e","a","r","\"",",","\"","c","a","t","e","g","o","r","y","\"",":","\"","l","a","n","g","u","a","g","e","_","c","l","a","r","i","t","y","\"","}","]",",","\"","n","o","t","e","s","_","f","o","r","_","l","e","g","a","l","_","r","e","v","i","e","w","\"",":","[","]","}">>
OddIssueText == <<"{","\"","s","e","c","t","i","o","n","_","i","d","\"",":","\"","s","\"",",","\"","s","e","v","e","r","i","t","y","_","o","v","e","r","a","l","l","\"",":","\"","h","i","g","h","\"",",","\"","i","s","s","u","e","s","\"",":","[","{","\"","t","y","p","e","\"",":","\"","v","a","g","u","e","_","l","a","n","g","u","a","g","e","\"",",","\"","s","e","v","e","r","i","t","y","\"",":","\"","c","r","i","t","i","c","a","l","\"",",","\"","d","e","s","c","r","i","p","t","i","o","n","\"",":","\"","u","n","c","l","e","a","r","\"",",","\"","c","a","t","e","g","o","r","y","\"",":","\"","o","t","h","e","r","\"","}","]",",","\"","n","o","t","e","s","_","f","o","r","_","l","e","g","a","l","_","r","e","v","i","e","w","\"",":","[","]","}">>
ValidGlobalText == <<"{","\"","s","c","o","p","e","_","c","h","a","n","g","e","\"",":","\"","e","x","p","a","n","d","e","d","\"",",","\"","c","r","i","t","i","c","a","l","_","r","e","d","_","f","l","a","g","s","\"",":","[","\"","c","a","p"," ","r","e","m","o","v","e","d","\"","]",",","\"","s","u","m","m","a","r","y","\"",":","\"","S","c","o","p","e"," ","g","r","e","w","\"","}">>

Array(list) == <<"array", list>>

\* a parsed section-analysis object: an absent key reads as undefined
SectionJson(section_id, severity_overall, issues, suggested_revision, notes_for_legal_review) ==
    [section_id |-> section_id, severity_overall |-> severity_overall, issues |-> issues,
     suggested_revision |-> suggested_revision,
     notes_for_legal_review |-> notes_for_legal_review]

IssueJson(type, severity, description, category) ==
    [type |-> type, severity |-> severity, description |-> description,
     old_text_snippet |-> Undefined, new_text_snippet |-> Undefined,
     suggested_revision |-> Undefined, category |-> category]

GlobalJson(scope_change, critical_red_flags, summary) ==
    [scope_change |-> scope_change, scope_change_description |-> Undefined,
     total_value_change |-> Undefined, timeline_changes |-> Undefined,
     critical_red_flags |-> critical_red_flags, summary |-> summary]

parseThrows(message) == [throws |-> TRUE, message |-> message, isNull |-> FALSE, object |-> NULL]
parsedNull == [throws |-> FALSE, message |-> NULL, isNull |-> TRUE, object |-> NULL]
parsedObject(object) == [throws |-> FALSE, message |-> NULL, isNull |-> FALSE, object |-> object]

\* JSON.parse(content) on the section responses
JSONparseSection(content) ==
    CASE content = NullText -> parsedNull
      [] content = EmptyObjectText ->
            parsedObject(SectionJson(Undefined, Undefined, Undefined, Undefined, Undefined))
      [] content = BadIssueText ->
            parsedObject(SectionJson(Undefined, Str(<<"u","r","g","e","n","t">>),
                Array(<<IssueJson(Undefined, Undefined, Undefined, Undefined)>>),
                Undefined, Array(<<<<"c","h","e","c","k">>>>)))
      [] content = ValidSectionText ->
            parsedObject(SectionJson(Str(<<"s">>), Str(<<"h","i","g","h">>),
                Array(<<IssueJson(Str(<<"v","a","g","u","e","_","l","a","n","g","u","a","g","e">>), Str(<<"m","e","d","i","u","m">>), Str(<<"u","n","c","l","e","a","r">>),
                                  Str(<<"l","a","n","g","u","a","g","e","_","c","l","a","r","i","t","y">>))>>),
                Undefined, Array(<<>>)))
      [] content = OddIssueText ->
            parsedObject(SectionJson(Str(<<"s">>), Str(<<"h","i","g","h">>),
                Array(<<IssueJson(Str(<<"v","a","g","u","e","_","l","a","n","g","u","a","g","e">>), Str(<<"c","r","i","t","i","c","a","l">>), Str(<<"u","n","c","l","e","a","r">>),
                                  Str(<<"o","t","h","e","r">>))>>),
                Undefined, Array(<<>>)))
      [] OTHER -> parseThrows(<<"U","n","e","x","p","e","c","t","e","d"," ","t","o","k","e","n"," ","o"," ","i","n"," ","J","S","O","N"," ","a","t"," ","p","o","s","i","t","i","o","n"," ","1">>)

\* JSON.parse(content) on the global responses
JSONparseGlobal(content) ==
    CASE content = NullText -> parsedNull
      [] content = EmptyObjectText -> parsedObject(GlobalJson(Undefined, Undefined, Undefined))
      [] content = ValidGlobalText ->
            parsedObject(GlobalJson(Str(<<"e","x","p","a","n","d","e","d">>), Array(<<<<"c","a","p"," ","r","e","m","o","v","e","d">>>>), Str(<<"S","c","o","p","e"," ","g","r","e","w">>)))
      [] OTHER -> parseThrows(<<"U","n","e","x","p","e","c","t","e","d"," ","t","o","k","e","n"," ","o"," ","i","n"," ","J","S","O","N"," ","a","t"," ","p","o","s","i","t","i","o","n"," ","1">>)

IssueCategories == {<<"l","e","g","a","l","_","r","i","s","k">>, <<"f","i","n","a","n","c","i","a","l">>, <<"d","e","l","i","v","e","r","a","b","l","e","s","_","s","c","o","p","e">>, <<"l","a","n","g","u","a","g","e","_","c","l","a","r","i","t","y">>, <<"f","o","r","m","a","t","t","i","n","g","_","s","t","r","u","c","t","u","r","e">>}

\* mapping[category] || "deliverables_scope"
mapIssueCategory(category) ==
    IF category[1] = "string" /\ category[2] \in IssueCategories
    THEN category[2] ELSE <<"d","e","l","i","v","e","r","a","b","l","e","s","_","s","c","o","p","e">>

\* an array, or [] in place of a missing one
arrayOrEmpty(v) == IF v[1] = "array" THEN v[2] ELSE <<>>

\* templateSection?.id
idOf(templateSection) == IF templateSection = NULL THEN Undefined ELSE Str(templateSection.id)

\* "Return a minimal analysis on error"
minimalAnalysis(templateSection, newSection) ==
    [sectionId |-> newSection.id, matchedOldSectionId |-> idOf(templateSection),
     severityOverall |-> Str(<<"l","o","w">>), issues |-> <<>>, suggestedRevision |-> Undefined,
     notesForLegalReview |-> <<>>]

\* one element of parsed.issues.map(...): id is uuidv4()
mapIssue(issue, newSection, k) ==
    [id |-> <<"issue", newSection.id, k>>, type |-> issue.type, severity |-> issue.severity,
     sectionId |-> newSection.id, description |-> issue.description,
     oldTextSnippet |-> issue.old_text_snippet, newTextSnippet |-> issue.new_text_snippet,
     suggestedRevision |-> issue.suggested_revision,
     category |-> mapIssueCategory(issue.category)]

\* "Transform the response into our internal format"
transformSection(templateSection, newSection, object) ==
    [sectionId |-> newSection.id, matchedOldSectionId |-> idOf(templateSection),
     severityOverall |-> object.severity_overall,
     issues |-> [k \in 1..Len(object.issues[2]) |-> mapIssue(object.issues[2][k], newSection, k)],
     suggestedRevision |-> object.suggested_revision,
     notesForLegalReview |-> arrayOrEmpty(object.notes_for_legal_review)]

\* whether the try block of analyzeSectionPair throws with this parse result:
\* a property read on null, or .map on something that is not an array
sectionParseThrows(parsed) ==
    parsed.throws \/ parsed.isNull \/ parsed.object.issues[1] # "array"

\* whether the call and the read of its content throw, before any parsing
callThrows(outcome) ==
    outcome.kind \in {"notConfigured", "transportError"} \/ ~truthy(outcome.content)

analyzeSectionPair(templateSection, newSection, outcome) ==
    IF callThrows(outcome) THEN minimalAnalysis(templateSection, newSection)
    ELSE IF sectionParseThrows(JSONparseSection(outcome.content[2]))
    THEN minimalAnalysis(templateSection, newSection)
    ELSE transformSection(templateSection, newSection,
                          JSONparseSection(outcome.content[2]).object)

ErrorSnippetLength == 100

RateLimitSummary == <<"G","l","o","b","a","l"," ","a","n","a","l","y","s","i","s"," ","s","k","i","p","p","e","d"," ","d","u","e"," ","t","o"," ","A","P","I"," ","r","a","t","e"," ","l","i","m","i","t","i","n","g","."," ","P","l","e","a","s","e"," ","w","a","i","t"," ","a"," ","m","o","m","e","n","t"," ","a","n","d"," ","t","r","y"," ","a","g","a","i","n",".">>
TimeoutSummary == <<"G","l","o","b","a","l"," ","a","n","a","l","y","s","i","s"," ","t","i","m","e","d"," ","o","u","t","."," ","T","h","e"," ","d","o","c","u","m","e","n","t","s"," ","m","a","y"," ","b","e"," ","t","o","o"," ","l","a","r","g","e"," ","f","o","r"," ","a","n","a","l","y","s","i","s",".">>
AuthSummary == <<"G","l","o","b","a","l"," ","a","n","a","l","y","s","i","s"," ","f","a","i","l","e","d"," ","d","u","e"," ","t","o"," ","a","u","t","h","e","n","t","i","c","a","t","i","o","n"," ","i","s","s","u","e","s","."," ","P","l","e","a","s","e"," ","c","h","e","c","k"," ","A","P","I"," ","c","r","e","d","e","n","t","i","a","l","s",".">>
OtherSummaryPrefix == <<"G","l","o","b","a","l"," ","a","n","a","l","y","s","i","s"," ","e","n","c","o","u","n","t","e","r","e","d"," ","a","n"," ","e","r","r","o","r",":"," ">>

\* a variant of failureSummary that tests for a timeout first
failureSummaryTimeoutFirst(errorMessage) ==
    IF includes(toLowerCase(errorMessage), <<"t","i","m","e","o","u","t">>) \/ includes(errorMessage, <<"E","T","I","M","E","D","O","U","T">>)
    THEN TimeoutSummary
    ELSE IF includes(errorMessage, <<"4","2","9">>) \/ includes(toLowerCase(errorMessage), <<"r","a","t","e">>)
    THEN RateLimitSummary
    ELSE IF includes(errorMessage, <<"4","0","1">>) \/ includes(errorMessage, <<"4","0","3">>)
            \/ includes(toLowerCase(errorMessage), <<"a","u","t","h">>)
    THEN AuthSummary
    ELSE OtherSummaryPrefix \o substring(errorMessage, ErrorSnippetLength)

\* the summary the catch block of analyzeGlobal selects
failureSummary(errorMessage) ==
    IF includes(errorMessage, <<"4","2","9">>) \/ includes(toLowerCase(errorMessage), <<"r","a","t","e">>)
    THEN RateLimitSummary
    ELSE IF includes(toLowerCase(errorMessage), <<"t","i","m","e","o","u","t">>) \/ includes(errorMessage, <<"E","T","I","M","E","D","O","U","T">>)
    THEN TimeoutSummary
    ELSE IF includes(errorMessage, <<"4","0","1">>) \/ includes(errorMessage, <<"4","0","3">>)
            \/ includes(toLowerCase(errorMessage), <<"a","u","t","h">>)
    THEN AuthSummary
    ELSE OtherSummaryPrefix \o substring(errorMessage, ErrorSnippetLength)

\* the error the try block of analyzeGlobal throws, if any
globalError(outcome) ==
    IF outcome.kind = "notConfigured" THEN [thrown |-> TRUE, message |-> NotConfiguredMessage]
    ELSE IF outcome.kind = "transportError" THEN [thrown |-> TRUE, message |-> outcome.message]
    ELSE IF ~truthy(outcome.content) THEN [thrown |-> TRUE, message |-> NoContentMessage]
    ELSE IF JSONparseGlobal(outcome.content[2]).throws
    THEN [thrown |-> TRUE, message |-> JSONparseGlobal(outcome.content[2]).message]
    ELSE IF JSONparseGlobal(outcome.content[2]).isNull
    THEN [thrown |-> TRUE, message |-> <<"C","a","n","n","o","t"," ","r","e","a","d"," ","p","r","o","p","e","r","t","i","e","s"," ","o","f"," ","n","u","l","l"," ","(","r","e","a","d","i","n","g"," ","'","s","c","o","p","e","_","c","h","a","n","g","e","'",")">>]
    ELSE [thrown |-> FALSE, message |-> NULL]

transformGlobal(object) ==
    [scopeChange |-> object.scope_change,
     scopeChangeDescription |-> object.scope_change_description,
     totalValueChange |-> Undefined,
     timelineChanges |-> object.timeline_changes,
     criticalRedFlags |-> arrayOrEmpty(object.critical_red_flags),
     summary |-> object.summary]

degradedGlobal(errorMessage) ==
    [scopeChange |-> Str(<<"u","n","c","h","a","n","g","e","d">>), scopeChangeDescription |-> Undefined,
     totalValueChange |-> Undefined, timelineChanges |-> Undefined,
     criticalRedFlags |-> <<>>, summary |-> Str(failureSummary(errorMessage))]

analyzeGlobal(outcome) ==
    IF globalError(outcome).thrown THEN degradedGlobal(globalError(outcome).message)
    ELSE transformGlobal(JSONparseGlobal(outcome.content[2]).object)

BatchSize == 3

\* templateSow.sections.find(s => s.id === matchedTemplateId) || null
findTemplate(templates, matchedTemplateId) ==
    IF matchedTemplateId = NULL THEN NULL
    ELSE IF \E i \in 1..Len(templates) : templates[i].id = matchedTemplateId
    THEN templates[CHOOSE i \in 1..Len(templates) :
                       /\ templates[i].id = matchedTemplateId
                       /\ \A h \in 1..(i - 1) : templates[h].id # matchedTemplateId]
    ELSE NULL

RECURSIVE flatten(_)
\* allIssues.push(...analysis.issues) over a list of analyses
flatten(analyses) ==
    IF analyses = <<>> THEN <<>> ELSE Head(analyses).issues \o flatten(Tail(analyses))

countSeverity(issues, severity) ==
    Cardinality({k \in 1..Len(issues) : issues[k].severity = Str(severity)})

\* the tail of analyzeSOWs: the counts, the breakdown and the returned result
analysisResult(globalAnalysis, analyses, issues) ==
    [id |-> <<"analysis">>, templateSowId |-> <<"sow", "template">>,
     newSowId |-> <<"sow", "draft">>, analyzedAt |-> <<"now">>,
     globalAnalysis |-> globalAnalysis, sectionAnalyses |-> analyses, allIssues |-> issues,
     issueCounts |-> [high |-> countSeverity(issues, <<"h","i","g","h">>),
                      medium |-> countSeverity(issues, <<"m","e","d","i","u","m">>),
                      low |-> countSeverity(issues, <<"l","o","w">>)],
     categoryBreakdown |->
         [category \in IssueCategories |->
             SelectSeq(issues, LAMBDA issue : issue.category = category)]]

(***************************************************************************)
(* analyzeSOWs as a process: the section calls of one batch are in flight  *)
(* together and resolve in any order, Promise.all hands their results on   *)
(* in batch order, and the global call follows the last batch.             *)
(***************************************************************************)
MaxAiSections == 4

AiContents == <<[number |-> <<"3">>, title |-> <<"P","a","y","m","e","n","t"," ","T","e","r","m","s">>, body |-> <<"n","e","t"," ","t","h","i","r","t","y"," ","d","a","y","s">>],
                [number |-> <<"4">>, title |-> <<"T","e","r","m","s">>, body |-> <<"n","e","t"," ","t","h","i","r","t","y"," ","d","a","y","s">>],
                [number |-> NULL, title |-> <<"R","a","n","d","o","m"," ","N","o","t","e","s">>, body |-> <<"n","e","t"," ","t","h","i","r","t","y"," ","d","a","y","s">>],
                [number |-> <<"3",".","1">>, title |-> <<"P","a","y","m","e","n","t"," ","T","e","r","m","s">>, body |-> <<"n","e","t"," ","s","i","x","t","y"," ","d","a","y","s">>]>>

AiTemplateSections == [i \in 1..2 |-> Section(TemplateId(i), AiContents[i])]

AiDraftSections(n) ==
    [j \in 1..n |-> Section(DraftId(j), AiContents[((j - 1) % Len(AiContents)) + 1])]

AiOutcome(kind, message, content) == [kind |-> kind, message |-> message, content |-> content]

TransportMessages ==
    {<<"4","2","9"," ","T","o","o"," ","M","a","n","y"," ","R","e","q","u","e","s","t","s">>, <<"R","e","q","u","e","s","t"," ","t","i","m","e","o","u","t"," ","a","f","t","e","r"," ","6","0","0","0","0","m","s">>, <<"4","0","1"," ","U","n","a","u","t","h","o","r","i","z","e","d">>, <<"C","o","n","n","e","c","t","i","o","n"," ","e","r","r","o","r",".">>, <<"4","2","9"," ","r","a","t","e"," ","l","i","m","i","t"," ","r","e","a","c","h","e","d"," ","a","f","t","e","r"," ","t","i","m","e","o","u","t",","," ","a","u","t","h","o","r","i","z","a","t","i","o","n"," ","p","e","n","d","i","n","g">>, <<"E","T","I","M","E","D","O","U","T"," ","w","h","i","l","e"," ","a","u","t","h","e","n","t","i","c","a","t","i","n","g">>}

\* what the service can do with a section request
SectionOutcomes(configured) ==
    IF ~configured THEN {AiOutcome("notConfigured", NotConfiguredMessage, Undefined)}
    ELSE {AiOutcome("transportError", <<"C","o","n","n","e","c","t","i","o","n"," ","e","r","r","o","r",".">>, Undefined)}
             \cup {AiOutcome("response", NULL, content) :
                      content \in {Undefined, Str(NotJsonText), Str(EmptyObjectText),
                                   Str(BadIssueText), Str(OddIssueText),
                                   Str(ValidSectionText)}}

\* what the service can do with the global request
GlobalOutcomes(configured) ==
    IF ~configured THEN {AiOutcome("notConfigured", NotConfiguredMessage, Undefined)}
    ELSE {AiOutcome("transportError", message, Undefined) : message \in TransportMessages}
             \cup {AiOutcome("response", NULL, content) :
                      content \in {Undefined, Str(<<>>), Str(NotJsonText), Str(NullText),
                                   Str(EmptyObjectText), Str(ValidGlobalText)}}

AiInit ==
    /\ aiConfigured \in BOOLEAN
    /\ aiDraft \in {AiDraftSections(n) : n \in 0..MaxAiSections}
    /\ aiPhase = "called"
    /\ aiMatches = <<>>
    /\ aiBatchStart = 0
    /\ aiBatchResults = <<>>
    /\ aiOutcomes = <<>>
    /\ aiSectionAnalyses = <<>>
    /\ aiAllIssues = <<>>
    /\ aiGlobalOutcome = <<>>
    /\ aiResult = <<>>

\* a variant of BatchIndices that takes every section that is left
BatchIndicesToEnd == (aiBatchStart + 1)..Len(aiDraft)

\* the indices (1-based) of newSow.sections.slice(i, i + batchSize)
BatchIndices == (aiBatchStart + 1)..Min(aiBatchStart + BatchSize, Len(aiDraft))

\* analyzeSOWs up to its first await: the sections are matched and the first
\* batch of section calls is sent (with no section, the global call is)
StartAnalyzeSOWs ==
    /\ aiPhase = "called"
    /\ aiMatches' = matchSections(AiTemplateSections, aiDraft)
    /\ aiPhase' = IF Len(aiDraft) > 0 THEN "sections" ELSE "global"
    /\ UNCHANGED <<aiConfigured, aiDraft, aiBatchStart, aiBatchResults, aiOutcomes,
                   aiSectionAnalyses, aiAllIssues, aiGlobalOutcome, aiResult,
                   alignVars, simVars, segVars, exceptAiVars>>

\* one section call of the batch in flight resolves
ResolveSectionPair ==
    /\ aiPhase = "sections"
    /\ \E j \in BatchIndices \ DOMAIN aiBatchResults :
       \E outcome \in SectionOutcomes(aiConfigured) :
           /\ aiBatchResults' =
                  mapSet(aiBatchResults, j,
                         analyzeSectionPair(findTemplate(AiTemplateSections,
                                                         aiMatches[aiDraft[j].id]),
                                            aiDraft[j], outcome))
           /\ aiOutcomes' = mapSet(aiOutcomes, j, outcome)
    /\ UNCHANGED <<aiConfigured, aiDraft, aiPhase, aiMatches, aiBatchStart,
                   aiSectionAnalyses, aiAllIssues, aiGlobalOutcome, aiResult,
                   alignVars, simVars, segVars, exceptAiVars>>

\* the batch's results in batch order
batchResultList == [k \in 1..Cardinality(BatchIndices) |-> aiBatchResults[aiBatchStart + k]]

\* Promise.all resolves: the batch's analyses are pushed in order and the next
\* batch (or, after the last one, the global call) is sent
CollectBatch ==
    /\ aiPhase = "sections"
    /\ BatchIndices \subseteq DOMAIN aiBatchResults
    /\ aiSectionAnalyses' = aiSectionAnalyses \o batchResultList
    /\ aiAllIssues' = aiAllIssues \o flatten(batchResultList)
    /\ aiBatchStart' = aiBatchStart + BatchSize
    /\ aiBatchResults' = <<>>
    /\ aiPhase' = IF aiBatchStart + BatchSize < Len(aiDraft) THEN "sections" ELSE "global"
    /\ UNCHANGED <<aiConfigured, aiDraft, aiMatches, aiOutcomes, aiGlobalOutcome, aiResult,
                   alignVars, simVars, segVars, exceptAiVars>>

\* the global call resolves and analyzeSOWs runs to its return
ResolveGlobal ==
    /\ aiPhase = "global"
    /\ \E outcome \in GlobalOutcomes(aiConfigured) :
           /\ aiGlobalOutcome' = outcome
           /\ aiResult' = analysisResult(analyzeGlobal(outcome), aiSectionAnalyses, aiAllIssues)
    /\ aiPhase' = "returned"
    /\ UNCHANGED <<aiConfigured, aiDraft, aiMatches, aiBatchStart, aiBatchResults, aiOutcomes,
                   aiSectionAnalyses, aiAllIssues, alignVars, simVars, segVars, exceptAiVars>>

InitAi == AiInit /\ AlignIdle /\ SimIdle /\ SegIdle /\ ExceptAiIdle

NextAi == StartAnalyzeSOWs \/ ResolveSectionPair \/ CollectBatch \/ ResolveGlobal

SpecAi == InitAi /\ [][NextAi]_vars

\* SECTION_ANALYSIS_SCHEMA on a parsed object
SeverityNames == {<<"h","i","g","h">>, <<"m","e","d","i","u","m">>, <<"l","o","w">>}

IssueTypeNames == {<<"v","a","g","u","e","_","l","a","n","g","u","a","g","e">>}

IsString(v) == v[1] = "string"

IssueConforms(issue) ==
    /\ IsString(issue.type) /\ issue.type[2] \in IssueTypeNames
    /\ IsString(issue.severity) /\ issue.severity[2] \in SeverityNames
    /\ IsString(issue.description)
    /\ IsString(issue.category) /\ issue.category[2] \in IssueCategories

ConformsToSectionSchema(object) ==
    /\ IsString(object.section_id)
    /\ IsString(object.severity_overall) /\ object.severity_overall[2] \in SeverityNames
    /\ object.issues[1] = "array"
    /\ \A k \in 1..Len(object.issues[2]) : IssueConforms(object.issues[2][k])
    /\ object.notes_for_legal_review[1] = "array"

\* the AI call for a section failed: client not configured, transport error,
\* empty response, unparseable JSON or JSON that violates the schema
SectionCallFailed(outcome) ==
    \/ outcome.kind \in {"notConfigured", "transportError"}
    \/ outcome.content = Undefined
    \/ outcome.content[2] = <<>>
    \/ JSONparseSection(outcome.content[2]).throws
    \/ JSONparseSection(outcome.content[2]).isNull
    \/ ~ConformsToSectionSchema(JSONparseSection(outcome.content[2]).object)

Neutral(sectionAnalysis) ==
    /\ sectionAnalysis.severityOverall = Str(<<"l","o","w">>)
    /\ sectionAnalysis.issues = <<>>
    /\ sectionAnalysis.notesForLegalReview = <<>>

\* one analysis per draft section, in draft document order
OnePerDraftSection ==
    aiPhase = "returned" =>
        /\ Len(aiResult.sectionAnalyses) = Len(aiDraft)
        /\ \A j \in 1..Len(aiDraft) : aiResult.sectionAnalyses[j].sectionId = aiDraft[j].id

\* C16: a failed AI call for a draft section gives that section the neutral
\* analysis (severity "low", no issues, no notes), and analyzeSOWs returns one
\* analysis per draft section in draft document order.
NeutralOnSectionFailure ==
    /\ \A j \in DOMAIN aiBatchResults :
           SectionCallFailed(aiOutcomes[j]) => Neutral(aiBatchResults[j])
    /\ aiPhase = "returned" =>
           \A j \in 1..Len(aiResult.sectionAnalyses) :
               SectionCallFailed(aiOutcomes[j]) => Neutral(aiResult.sectionAnalyses[j])
    /\ OnePerDraftSection

\* the global AI call failed: its try block threw
GlobalCallFailed ==
    \/ aiGlobalOutcome.kind \in {"notConfigured", "transportError"}
    \/ aiGlobalOutcome.content = Undefined
    \/ aiGlobalOutcome.content[2] = <<>>
    \/ JSONparseGlobal(aiGlobalOutcome.content[2]).throws
    \/ JSONparseGlobal(aiGlobalOutcome.content[2]).isNull

IsRateLimit(message) == includes(message, <<"4","2","9">>) \/ includes(toLowerCase(message), <<"r","a","t","e">>)
IsTimeout(message) == includes(toLowerCase(message), <<"t","i","m","e","o","u","t">>) \/ includes(message, <<"E","T","I","M","E","D","O","U","T">>)
IsAuth(message) ==
    \/ includes(message, <<"4","0","1">>) \/ includes(message, <<"4","0","3">>)
    \/ includes(toLowerCase(message), <<"a","u","t","h">>)

\* the summary by failure type: rate limit, then timeout, then auth, then other
SummaryAsSpecified(summary, message) ==
    IF IsRateLimit(message) THEN summary = RateLimitSummary
    ELSE IF IsTimeout(message) THEN summary = TimeoutSummary
    ELSE IF IsAuth(message) THEN summary = AuthSummary
    ELSE /\ startsWith(summary, OtherSummaryPrefix)
         /\ summary \notin {RateLimitSummary, TimeoutSummary, AuthSummary}

\* the section analyses as the section calls alone determine them
AnalysesOfSectionCalls ==
    [j \in 1..Len(aiDraft) |->
        analyzeSectionPair(findTemplate(AiTemplateSections, aiMatches[aiDraft[j].id]),
                           aiDraft[j], aiOutcomes[j])]

\* C17: when the global AI call fails, analyzeSOWs still returns, with a global
\* analysis of scopeChange "unchanged", no red flags and a non-empty summary
\* chosen by failure type (rate limit, then timeout, then auth, then other),
\* and with the section analyses collected before it.
GlobalDegradedOnFailure ==
    (aiPhase = "returned" /\ GlobalCallFailed) =>
        /\ aiResult.globalAnalysis.scopeChange = Str(<<"u","n","c","h","a","n","g","e","d">>)
        /\ aiResult.globalAnalysis.criticalRedFlags = <<>>
        /\ IsString(aiResult.globalAnalysis.summary)
        /\ aiResult.globalAnalysis.summary[2] # <<>>
        /\ SummaryAsSpecified(aiResult.globalAnalysis.summary[2],
                              globalError(aiGlobalOutcome).message)
        /\ aiResult.sectionAnalyses = aiSectionAnalyses
        /\ aiResult.sectionAnalyses = AnalysesOfSectionCalls

\* returned after a global failure whose message names a rate limit, a timeout
\* and an authorization at once, with a section analysis that holds an issue
GlobalDegradedOnFailureWitness ==
    /\ aiPhase = "returned" /\ GlobalCallFailed
    /\ IsRateLimit(aiGlobalOutcome.message) /\ IsTimeout(aiGlobalOutcome.message)
    /\ IsAuth(aiGlobalOutcome.message)
    /\ aiResult.globalAnalysis.summary = Str(RateLimitSummary)
    /\ \E j \in 1..Len(aiResult.sectionAnalyses) : aiResult.sectionAnalyses[j].issues # <<>>

\* C18: parseRichDocx returns the full section list whenever the container
\* opens and word/document.xml is present and parses, whatever the state of
\* docProps/core.xml (missing or malformed: no metadata field is set); it
\* throws and returns nothing when the container does not open or
\* word/document.xml is absent.
RichParseSucceedsOnMainPart ==
    richOutcome # "none" =>
        /\ (richFile.opens /\ richFile.document = "wellformed") =>
               /\ richOutcome = "returned"
               /\ richResult.sections = richExtractSections(richFile.body)
               /\ richFile.core \in {"absent", "malformed"} => richResult.metadata = <<>>
        /\ (~richFile.opens \/ richFile.document = "absent") =>
               /\ richOutcome = "threw"
               /\ richResult = <<>>

\* the chosen template position i is the first, among the candidates, with
\* the highest score: every earlier one scores less, no later one scores more
FirstOfTheBest(Score(_, _), j, i, candidates) ==
    /\ i \in candidates
    /\ \A h \in candidates :
           /\ h < i => Score(draftSections[j], templateSections[h])
                           < Score(draftSections[j], templateSections[i])
           /\ h > i => Score(draftSections[j], templateSections[h])
                           <= Score(draftSections[j], templateSections[i])

\* C19: when several unclaimed template sections tie for the highest score of
\* a draft section, each aligner takes the first in template-list order; a
\* later one replaces the candidate only with a strictly greater score.
TiesKeepFirstSeen ==
    /\ "ComparisonView" \in ran =>
           \A j \in 1..Len(sectionPairs) :
               sectionPairs[j].templateSection # NULL =>
                   FirstOfTheBest(cvScore, j, IndexOfTemplate(sectionPairs[j].templateSection),
                                  Unclaimed(ClaimedBefore(sectionPairs, j)))
    /\ "ReviewDashboard" \in ran =>
           \A j \in 1..Len(sectionMatches) :
               sectionMatches[j].templateSection # NULL =>
                   FirstOfTheBest(rdScore, j,
                                  IndexOfTemplate(sectionMatches[j].templateSection),
                                  Unclaimed(ClaimedBefore(sectionMatches, j)))
    /\ "matchSections" \in ran =>
           \A j \in 1..Len(draftSections) :
               matches[draftSections[j].id] # NULL =>
                   \E i \in 1..Len(templateSections) :
                       /\ templateSections[i].id = matches[draftSections[j].id]
                       /\ FirstOfTheBest(msScore, j, i, 1..Len(templateSections))

\* two template sections tie for the first draft section in all three aligners,
\* and all three took the first
TiesKeepFirstSeenWitness ==
    /\ ran = {"ComparisonView", "ReviewDashboard", "matchSections"}
    /\ Len(templateSections) = 2 /\ Len(draftSections) >= 1
    /\ cvScore(draftSections[1], templateSections[1])
           = cvScore(draftSections[1], templateSections[2])
    /\ rdScore(draftSections[1], templateSections[1])
           = rdScore(draftSections[1], templateSections[2])
    /\ msScore(draftSections[1], templateSections[1])
           = msScore(draftSections[1], templateSections[2])
    /\ sectionPairs[1].templateSection = templateSections[1].id
    /\ sectionMatches[1].templateSection = templateSections[1].id
    /\ matches[draftSections[1].id] = templateSections[1].id

\* one string is a literal prefix of the other
IsPrefixOf(a, b) == Len(a) <= Len(b) /\ \A k \in 1..Len(a) : a[k] = b[k]

\* the number-token contribution as stated
NumberContribution(draft, template) ==
    IF draft.number = NULL \/ template.number = NULL THEN 0
    ELSE IF draft.number = template.number THEN 100
    ELSE IF IsPrefixOf(draft.number, template.number)
            \/ IsPrefixOf(template.number, draft.number) THEN 50
    ELSE 0

\* C20: the number tokens contribute 100 to a pair's score when both are present
\* and equal, 50 when both are present, unequal and one is a prefix of the
\* other, and 0 otherwise; never both bonuses (ComparisonView and matchSections).
NumberContributionExclusive ==
    \A j \in 1..Len(draftSections) : \A i \in 1..Len(templateSections) :
        /\ "ComparisonView" \in ran =>
               cvNumberScore(draftSections[j], templateSections[i])
                   = NumberContribution(draftSections[j], templateSections[i])
        /\ "matchSections" \in ran =>
               msNumberScore(draftSections[j], templateSections[i])
                   = NumberContribution(draftSections[j], templateSections[i])

\* both aligners ran over a pair with equal tokens, a pair with prefix-related
\* tokens and a pair with a missing token
NumberContributionExclusiveWitness ==
    /\ {"ComparisonView", "matchSections"} \subseteq ran
    /\ \E j \in 1..Len(draftSections) : \E i \in 1..Len(templateSections) :
           cvNumberScore(draftSections[j], templateSections[i]) = 100
    /\ \E j \in 1..Len(draftSections) : \E i \in 1..Len(templateSections) :
           msNumberScore(draftSections[j], templateSections[i]) = 50
    /\ \E j \in 1..Len(draftSections) : \E i \in 1..Len(templateSections) :
           draftSections[j].number = NULL \/ templateSections[i].number = NULL

\* paragraph i is, literally, "Table of Contents"
LiterallyTableOfContents(i) ==
    trim(paragraphs[i]) = <<"T","a","b","l","e"," ","o","f"," ","C","o","n","t","e","n","t","s">>

\* the suppression mode is entered, and left, at paragraph i
ModeEnteredAt(i) ==
    ~tocSectionDetectedAfter(paragraphs, i - 1) /\ tocSectionDetectedAfter(paragraphs, i)
ModeLeftAt(i) ==
    tocSectionDetectedAfter(paragraphs, i - 1) /\ ~tocSectionDetectedAfter(paragraphs, i)

\* the suppression mode is entered at the literal heading only
ModeEnteredAtHeadingOnly ==
    \A i \in 1..Len(paragraphs) :
        /\ ModeEnteredAt(i) => LiterallyTableOfContents(i)
        /\ LiterallyTableOfContents(i) => tocSectionDetectedAfter(paragraphs, i)

\* C21: the table-of-contents suppression mode of extractSectionsFromHtml is
\* entered at a paragraph that is literally "Table of Contents" and is left only
\* at an accepted header that is not entry-shaped and is over 60 characters long.
TocModeLeftAtLongHeaderOnly ==
    segmented =>
        /\ ModeEnteredAtHeadingOnly
        /\ \A i \in 1..Len(paragraphs) :
               ModeLeftAt(i) =>
                   /\ AcceptedAsHeader(i)
                   /\ ~TocShapedAt(i)
                   /\ Len(trim(paragraphs[i])) > TocExitLength

\* a token of one letter, in either case
SingleLetter(token) ==
    Len(token) = 1 /\ (IsUpperChar(token[1]) \/ IsLowerChar(token[1]))

\* the section the plain-text parser makes of a header that opens with the token
HeaderWithToken(token) ==
    parseParagraphAsSection(token \o <<" ","T","e","r","m","s">>, 0)

\* C22: the plain-text segmenter gives level 2 to a section whose number token
\* is a single letter, the letters I, V, X, L, C, D, M included, and level 3 to
\* a section whose header opens with a parenthetical token such as "(a)" or "(1)".
LetterLevelTwoParentheticalThree ==
    levels # <<>> =>
        /\ SingleLetter(levelToken) => levels.plain = 2
        /\ isParenthesizedToken(levelToken) =>
               /\ HeaderWithToken(levelToken).found
               /\ HeaderWithToken(levelToken).level = 3

\* a single letter that is no roman numeral has level 2
PlainLetterLevelTwo ==
    (levels # <<>> /\ SingleLetter(levelToken) /\ ~BareRoman(levelToken)) => levels.plain = 2

\* a header that opens with a parenthetical token never has level 3
ParentheticalHeaderNeverThree ==
    (levels # <<>> /\ isParenthesizedToken(levelToken)) =>
        /\ HeaderWithToken(levelToken).found
        /\ HeaderWithToken(levelToken).level # 3

\* a single roman letter has level 1
RomanLetterLevelOne ==
    (levels # <<>> /\ SingleLetter(levelToken) /\ BareRoman(levelToken)) => levels.plain = 1

\* the number of paragraphs the two sections share
SharedParagraphs == Min(Len(formatTemplate.paragraphs), Len(formatDraft.paragraphs))

\* a section cut to the paragraphs it shares with another, and each of these
\* paragraphs cut to the runs it shares with the other's
cutToShared(section, other) ==
    [section EXCEPT !.paragraphs =
        [i \in 1..Min(Len(section.paragraphs), Len(other.paragraphs)) |->
            [section.paragraphs[i] EXCEPT !.runs =
                SubSeq(@, 1, Min(Len(section.paragraphs[i].runs),
                                 Len(other.paragraphs[i].runs)))]]]

\* the differences of paragraphs and runs
ParagraphAndRunDifferences == SelectSeq(formatDifferences, LAMBDA d : d.type # "table")

\* the differences of runs located at the 0-based paragraph i
RunDifferencesAt(i) ==
    SelectSeq(formatDifferences, LAMBDA d : d.type = "font" /\ d.location.paragraphIndex = i)

\* C23: every paragraph-level or run-level difference of compareSectionFormatting
\* has a paragraphIndex below the smaller of the two paragraph counts, the run
\* differences of a paragraph come from the runs below the smaller of its two run
\* counts, and what lies beyond the shorter side does not change the result.
DifferencesWithinSharedPrefix ==
    (formatRan /\ formatTemplate # NULL) =>
        /\ \A k \in 1..Len(ParagraphAndRunDifferences) :
               ParagraphAndRunDifferences[k].location.paragraphIndex \in 0..(SharedParagraphs - 1)
        /\ \A i \in 0..(SharedParagraphs - 1) :
               Len(RunDifferencesAt(i)) <=
                   4 * Min(Len(formatTemplate.paragraphs[i + 1].runs),
                           Len(formatDraft.paragraphs[i + 1].runs))
        /\ formatDifferences =
               compareSectionFormatting(cutToShared(formatTemplate, formatDraft),
                                        cutToShared(formatDraft, formatTemplate))

\* compared: two template paragraphs against one draft paragraph, the first pair
\* with two runs against one, and a difference of runs was emitted
DifferencesWithinSharedPrefixWitness ==
    /\ formatRan /\ formatTemplate # NULL
    /\ Len(formatTemplate.paragraphs) = 2 /\ Len(formatDraft.paragraphs) = 1
    /\ Len(formatTemplate.paragraphs[1].runs) = 2
    /\ Len(formatDraft.paragraphs[1].runs) = 1
    /\ RunDifferencesAt(0) # <<>>

\* a value that is absent, empty or zero
AbsentEmptyOrZero(v) == v = Undefined \/ v = Str(<<>>) \/ v = Num(0)

\* the differences of one attribute located at the 0-based paragraph i: those
\* of the type whose fix, or whose comparison, is about that attribute
DifferencesOf(type, attribute, i) ==
    SelectSeq(formatDifferences,
              LAMBDA d : /\ d.type = type
                         /\ d.location.paragraphIndex = i
                         /\ type = "font" => attribute \in DOMAIN d.fix.templateFormatting)

\* the number of differences the statement gives a paragraph attribute
ExpectedOfParagraph(attribute, i) ==
    IF /\ ~AbsentEmptyOrZero(formatTemplate.paragraphs[i + 1].formatting[attribute])
       /\ formatTemplate.paragraphs[i + 1].formatting[attribute]
              # formatDraft.paragraphs[i + 1].formatting[attribute]
    THEN 1 ELSE 0

\* the number of differences the statement gives a run attribute: one for each
\* shared run whose template value is there and differs from the draft's
ExpectedOfRuns(attribute, i) ==
    Cardinality({j \in 1..Min(Len(formatTemplate.paragraphs[i + 1].runs),
                              Len(formatDraft.paragraphs[i + 1].runs)) :
        /\ formatTemplate.paragraphs[i + 1].runs[j].formatting[attribute] # Undefined
        /\ formatTemplate.paragraphs[i + 1].runs[j].formatting[attribute]
               # formatDraft.paragraphs[i + 1].runs[j].formatting[attribute]})

AllOfSeverity(differences, severity) ==
    \A k \in 1..Len(differences) : differences[k].severity = severity

AlignmentOrLeft(para) == orElse(para.formatting.alignment, <<"l","e","f","t">>)

AlignmentDifferencesAt(i) ==
    SelectSeq(formatDifferences,
              LAMBDA d : d.type = "alignment" /\ d.location.paragraphIndex = i)

\* C25: compareSectionFormatting treats an unset alignment as "left": a pair of
\* paragraphs whose alignments are the same once unset counts as "left" gets no
\* alignment difference, and every alignment difference reports a template
\* value that is not its draft value.
UnsetAlignmentComparedAsLeft ==
    (formatRan /\ formatTemplate # NULL) =>
        \A i \in 0..(SharedParagraphs - 1) :
            /\ AlignmentOrLeft(formatTemplate.paragraphs[i + 1])
                   = AlignmentOrLeft(formatDraft.paragraphs[i + 1])
                 => AlignmentDifferencesAt(i) = <<>>
            /\ \A k \in 1..Len(AlignmentDifferencesAt(i)) :
                   AlignmentDifferencesAt(i)[k].templateValue
                       # AlignmentDifferencesAt(i)[k].draftValue

\* an alignment difference is emitted exactly where the stored values differ
AlignmentComparedAsStored ==
    (formatRan /\ formatTemplate # NULL) =>
        \A i \in 0..(SharedParagraphs - 1) :
            Len(AlignmentDifferencesAt(i)) =
                IF formatTemplate.paragraphs[i + 1].formatting.alignment
                       # formatDraft.paragraphs[i + 1].formatting.alignment
                THEN 1 ELSE 0

\* the section calls sent and not yet settled
SectionCallsInFlight ==
    IF aiPhase = "sections" THEN BatchIndices \ DOMAIN aiBatchResults ELSE {}

\* the section calls sent so far, and those settled so far
SectionCallsStarted ==
    IF aiPhase = "called" THEN {}
    ELSE IF aiPhase = "sections" THEN 1..Min(aiBatchStart + BatchSize, Len(aiDraft))
    ELSE 1..Len(aiDraft)
SectionCallsSettled == DOMAIN aiOutcomes

\* the batch (0-based) the call for the 1-based section j belongs to
BatchOf(j) == (j - 1) \div BatchSize

\* the global call has been sent
GlobalCallStarted == aiPhase \in {"global", "returned"}

\* C26: analyzeSOWs never has more than 3 section calls in flight, has started
\* no call of a later batch while a call of an earlier batch is unsettled, and
\* has started the global call only when every section call has settled.
BatchesOfThreeInTurn ==
    /\ Cardinality(SectionCallsInFlight) <= 3
    /\ SectionCallsInFlight = SectionCallsStarted \ SectionCallsSettled
    /\ \A j \in SectionCallsStarted : \A k \in 1..Len(aiDraft) :
           BatchOf(k) < BatchOf(j) => k \in SectionCallsSettled
    /\ GlobalCallStarted => SectionCallsSettled = 1..Len(aiDraft)

\* the fourth section's call is in flight, the three of the first batch settled
BatchesOfThreeInTurnWitness ==
    /\ aiPhase = "sections"
    /\ Len(aiDraft) = 4
    /\ SectionCallsInFlight = {4}
    /\ SectionCallsSettled = {1, 2, 3}

\* three section calls are in flight at once
ThreeInFlight == Cardinality(SectionCallsInFlight) = 3

\* the number of categoryBreakdown lists the issue with this id appears in,
\* counted with its repetitions
AppearancesInBreakdown(id) ==
    LET appearances(category) ==
            Len(SelectSeq(aiResult.categoryBreakdown[category], LAMBDA issue : issue.id = id))
        total[categories \in SUBSET IssueCategories] ==
            IF categories = {} THEN 0
            ELSE LET category == CHOOSE c \in categories : TRUE
                 IN  appearances(category) + total[categories \ {category}]
    IN  total[IssueCategories]

\* every issue of allIssues is in exactly one categoryBreakdown list
BreakdownPartitionsIssues ==
    aiPhase = "returned" =>
        \A k \in 1..Len(aiResult.allIssues) :
            AppearancesInBreakdown(aiResult.allIssues[k].id) = 1

\* C27: in every AnalysisResult analyzeSOWs returns, the high, medium and low
\* counts of issueCounts add up to the length of allIssues, and every issue of
\* allIssues is in exactly one categoryBreakdown list, whatever severity and
\* category strings the responses hold.
CountsAndBreakdownCoverIssues ==
    aiPhase = "returned" =>
        /\ aiResult.issueCounts.high + aiResult.issueCounts.medium + aiResult.issueCounts.low
               = Len(aiResult.allIssues)
        /\ BreakdownPartitionsIssues

\* the three counts add up to the number of issues whose severity is one of
\* "high", "medium" and "low"
CountsCoverNamedSeverities ==
    aiPhase = "returned" =>
        aiResult.issueCounts.high + aiResult.issueCounts.medium + aiResult.issueCounts.low
            = Len(SelectSeq(aiResult.allIssues,
                            LAMBDA issue : IsString(issue.severity)
                                           /\ issue.severity[2] \in SeverityNames))

\* a result was returned whose only issue has the severity string "critical"
\* and the category string "other": it is in no count, and in the list of
\* "deliverables_scope"
UnnamedSeverityUncounted ==
    /\ aiPhase = "returned"
    /\ Len(aiResult.allIssues) = 1
    /\ aiResult.allIssues[1].severity = Str(<<"c","r","i","t","i","c","a","l">>)
    /\ aiResult.issueCounts = [high |-> 0, medium |-> 0, low |-> 0]
    /\ aiResult.categoryBreakdown[<<"d","e","l","i","v","e","r","a","b","l","e","s","_","s","c","o","p","e">>]
           = aiResult.allIssues

\* C28: for every draft section, the template section the review dashboard
\* shows beside it (sectionMatches) is the template section, or the absence of
\* one, that matchSections gave analyzeSOWs for it.
DashboardShowsAnalyzedPairing ==
    {"ReviewDashboard", "matchSections"} \subseteq ran =>
        \A j \in 1..Len(draftSections) :
            sectionMatches[j].templateSection = matches[draftSections[j].id]

(***************************************************************************)
(* The Home page (src/src/app/layout.tsx): its state, and the events that  *)
(* change it.  A request to /api/upload or /api/analyze is in flight from  *)
(* the handler's fetch to the continuation after it; the buttons that can  *)
(* be clicked meanwhile are those the page renders in its current state.   *)
(***************************************************************************)
MaxUploadRequests == 2

UploadTypes == {"template", "draft"}

\* the documents /api/upload can answer with
ParsedSows == {<<"sow", 1>>, <<"sow", 2>>}

UploadFailedMessage == <<"U","p","l","o","a","d"," ","f","a","i","l","e","d">>
AnalysisFailedMessage == <<"A","n","a","l","y","s","i","s"," ","f","a","i","l","e","d">>

HomeInit ==
    /\ step = "upload"
    /\ templateSow = NULL
    /\ draftSow = NULL
    /\ analysis = NULL
    /\ isUploading = "null"
    /\ isAnalyzing = FALSE
    /\ error = NULL
    /\ uploadRequests = [type \in UploadTypes |-> 0]
    /\ analyzeRequest = NULL

\* the file a FileUploadZone shows
fileOf(type) == IF type = "template" THEN templateSow ELSE draftSow

\* a file is dropped on, or chosen in, a FileUploadZone that shows no file and
\* is not disabled: uploadFile runs up to its fetch
StartUploadFile ==
    /\ step = "upload"
    /\ \E type \in UploadTypes :
           /\ fileOf(type) = NULL
           /\ isUploading # type
           /\ uploadRequests["template"] + uploadRequests["draft"] < MaxUploadRequests
           /\ isUploading' = type
           /\ uploadRequests' = [uploadRequests EXCEPT ![type] = @ + 1]
    /\ error' = NULL
    /\ UNCHANGED <<step, templateSow, draftSow, analysis, isAnalyzing, analyzeRequest,
                   alignVars, simVars, segVars, exceptHomeVars>>

\* an upload request is answered: uploadFile runs from its fetch to its end
CompleteUploadFile ==
    /\ \E type \in UploadTypes :
           /\ uploadRequests[type] > 0
           /\ uploadRequests' = [uploadRequests EXCEPT ![type] = @ - 1]
           /\ \/ \E sow \in ParsedSows :
                     /\ templateSow' = IF type = "template" THEN sow ELSE templateSow
                     /\ draftSow' = IF type = "template" THEN draftSow ELSE sow
                     /\ error' = error
              \/ /\ error' = UploadFailedMessage
                 /\ UNCHANGED <<templateSow, draftSow>>
    /\ isUploading' = "null"
    /\ UNCHANGED <<step, analysis, isAnalyzing, analyzeRequest,
                   alignVars, simVars, segVars, exceptHomeVars>>

\* onClear of a FileUploadZone that shows a file
ClearFile ==
    /\ step = "upload"
    /\ \E type \in UploadTypes :
           /\ fileOf(type) # NULL
           /\ templateSow' = IF type = "template" THEN NULL ELSE templateSow
           /\ draftSow' = IF type = "template" THEN draftSow ELSE NULL
    /\ UNCHANGED <<step, analysis, isUploading, isAnalyzing, error, uploadRequests,
                   analyzeRequest, alignVars, simVars, segVars, exceptHomeVars>>

\* the Analyze button, enabled, is clicked: handleAnalyze runs up to its fetch
StartHandleAnalyze ==
    /\ step = "upload"
    /\ ~isAnalyzing
    /\ templateSow # NULL /\ draftSow # NULL
    /\ isAnalyzing' = TRUE
    /\ error' = NULL
    /\ analyzeRequest' = [templateSow |-> templateSow, newSow |-> draftSow]
    /\ UNCHANGED <<step, templateSow, draftSow, analysis, isUploading, uploadRequests,
                   alignVars, simVars, segVars, exceptHomeVars>>

\* the analyze request is answered: handleAnalyze runs from its fetch to its end
CompleteHandleAnalyze ==
    /\ analyzeRequest # NULL
    /\ \/ /\ analysis' = [templateSowId |-> analyzeRequest.templateSow,
                          newSowId |-> analyzeRequest.newSow]
          /\ step' = "review"
          /\ error' = error
       \/ /\ error' = AnalysisFailedMessage
          /\ UNCHANGED <<analysis, step>>
    /\ isAnalyzing' = FALSE
    /\ analyzeRequest' = NULL
    /\ UNCHANGED <<templateSow, draftSow, isUploading, uploadRequests,
                   alignVars, simVars, segVars, exceptHomeVars>>

\* "Start Over", which the header shows in the review step
handleReset ==
    /\ step = "review"
    /\ step' = "upload"
    /\ templateSow' = NULL
    /\ draftSow' = NULL
    /\ analysis' = NULL
    /\ error' = NULL
    /\ UNCHANGED <<isUploading, isAnalyzing, uploadRequests, analyzeRequest,
                   alignVars, simVars, segVars, exceptHomeVars>>

InitHome == HomeInit /\ AlignIdle /\ SimIdle /\ SegIdle /\ ExceptHomeIdle

NextHome ==
    \/ StartUploadFile
    \/ CompleteUploadFile
    \/ ClearFile
    \/ StartHandleAnalyze
    \/ CompleteHandleAnalyze
    \/ handleReset

SpecHome == InitHome /\ [][NextHome]_vars

\* C29: in the Home page, whenever step is "review" the template document, the
\* draft document and the analysis are all non-null.
ReviewHasDocumentsAndAnalysis ==
    step = "review" => templateSow # NULL /\ draftSow # NULL /\ analysis # NULL

\* in the review step the analysis is non-null
ReviewHasAnalysis == step = "review" => analysis # NULL

\* the review step with the template document cleared
ReviewWithoutTemplate == step = "review" /\ templateSow = NULL /\ draftSow # NULL

(***************************************************************************)
(* The expansion state of ComparisonView                                   *)
(* (src/src/components/ComparisonView.tsx): expandedSections and expandAll,*)
(* over the draft sections of the pairs it lists.                          *)
(***************************************************************************)
MaxViewSections == 6

\* sectionPairs.map((p) => p.draftSection.id)
ViewSectionIds == {SectionId(k) : k \in 1..MaxViewSections}

ViewInit ==
    /\ expandedSections = {}
    /\ expandAll = TRUE

toggleSection(sectionId) ==
    /\ expandedSections' = IF sectionId \in expandedSections
                           THEN expandedSections \ {sectionId}
                           ELSE expandedSections \cup {sectionId}
    /\ UNCHANGED <<expandAll, alignVars, simVars, segVars, exceptViewVars>>

\* onToggleExpand of one of the SectionPairViews
ToggleSection == \E sectionId \in ViewSectionIds : toggleSection(sectionId)

handleExpandAll ==
    /\ expandedSections' = IF expandAll THEN {} ELSE ViewSectionIds
    /\ expandAll' = ~expandAll
    /\ UNCHANGED <<alignVars, simVars, segVars, exceptViewVars>>

isSectionExpanded(sectionId) ==
    IF expandAll /\ Cardinality(expandedSections) = 0 THEN TRUE
    ELSE sectionId \in expandedSections

InitView == ViewInit /\ AlignIdle /\ SimIdle /\ SegIdle /\ ExceptViewIdle

NextView == ToggleSection \/ handleExpandAll

SpecView == InitView /\ [][NextView]_vars

\* toggling sectionId flips what is displayed for it and for nothing else
FlipsOnly(sectionId) ==
    /\ isSectionExpanded(sectionId)' # isSectionExpanded(sectionId)
    /\ \A other \in ViewSectionIds \ {sectionId} :
           isSectionExpanded(other)' = isSectionExpanded(other)

\* C30: in ComparisonView, toggling one section flips the displayed expanded or
\* collapsed state of that section only and leaves every other section's
\* displayed state as it was, from any combination of expandAll and
\* expandedSections, the initial all-expanded state included.
ToggleFlipsThatSectionOnly ==
    [][\A sectionId \in ViewSectionIds : toggleSection(sectionId) => FlipsOnly(sectionId)]_vars

\* the same, for the toggles where expandAll does not override the set before
\* or after: expandAll is off, or the set is empty neither before nor after
ToggleFlipsWhenSetIsDisplayed ==
    [][\A sectionId \in ViewSectionIds :
          (toggleSection(sectionId)
              /\ (~expandAll \/ (expandedSections # {} /\ expandedSections' # {})))
          => FlipsOnly(sectionId)]_vars

====
